---------------------------- MODULE Spec2Model ----------------------------
(***************************************************************************)
(* A model of the pg-bench-listen-notify scripts:                          *)
(*   parse_pgbench_csv.py  (parse_pgbench_file, main)                      *)
(*   analyze_scaling.py    (analyze_scaling)                               *)
(*   plot_candlestick.py   (plot_candlestick_comparison, plot_version_pair)*)
(*   plot_stats.py         (plot_stats)                                    *)
(* Strings are sequences of one-character strings, Python's None is the    *)
(* tagged value <<"none">>, an int n is <<"int", n>>, a str s <<"str", s>>.*)
(* Sequences are 1-based here and 0-based in the source: the source's      *)
(* parts[k] is parts[k + 1] below.                                         *)
(***************************************************************************)
EXTENDS Integers, Sequences, FiniteSets, TLC

VARIABLES
    script,       \* which entry point this run executes
    pc,           \* position of the run inside that entry point
    exit_status,  \* process exit status once the run has ended, -1 before

    \* parse_pgbench_file called on one file
    file,         \* the file: [stem, content, readable]
    enc,          \* the values the file name was built from, or NoEnc
    parsed,       \* what parse_pgbench_file returned, NotCalled before

    \* parse_pgbench_csv.main
    dirExists,    \* os.path.exists('./results')
    txt_files,    \* glob result: the .txt files, in glob order
    i,            \* loop position in txt_files
    all_data,     \* records collected by the first loop
    csv_files,    \* per-file CSVs written, in order: [stem, name, header, row];
                  \* a later one of the same name replaces the earlier
    combined,     \* the combined CSV, NotWritten or [header, rows]

    \* analyze_scaling, plot_candlestick and plot_stats
    env,          \* which pandas and scipy behaviour is installed
    VERSION_COLORS,  \* plot_candlestick's module-level dict: version -> colour
    color_log,    \* each get_color_from_version call: [fn, version, color]
    csvExists,    \* os.path.exists(csv_file)
    df,           \* the table read from the CSV: a sequence of rows
    versions,     \* the versions in order of first appearance
    idx,          \* loop position in versions
    results,      \* analyze_scaling's results list
    regression_info,  \* plot_candlestick_comparison's regression_info list
    phases,       \* each increasing-phase subset taken: [fn, version, rows]
    regressions,  \* each regression decision: [fn, version, rows, called]

    \* a call of one of the reporting functions
    args,         \* the arguments of the call
    ret,          \* what the call returned, NotReturned before

    \* plot_pgbench run again on the same files
    run,          \* the number of the run
    prev,         \* what the run before printed
    artifacts,    \* the files plot_pgbench has written

    stdout        \* what was printed: a sequence of <<message, argument>>

parseVars == <<file, enc, parsed>>
mainVars == <<dirExists, txt_files, i, all_data, csv_files, combined>>
analysisVars ==
    <<env, VERSION_COLORS, color_log, csvExists, df, versions, idx, results,
      regression_info, phases, regressions>>
callVars == <<args, ret>>
rerunVars == <<run, prev, artifacts>>
vars ==
    <<script, pc, exit_status, parseVars, mainVars, analysisVars, callVars, rerunVars,
      stdout>>

Say(out, message) == Append(out, <<message, "">>)
SayOf(out, message, arg) == Append(out, <<message, arg>>)
Printed(message, arg) == \E k \in 1..Len(stdout) : stdout[k] = <<message, arg>>

---------------------------------------------------------------------------
(* Python values *)

None == <<"none">>
IntV(n) == <<"int", n>>
StrV(s) == <<"str", s>>
\* a float read from decimal text: digits / 10^frac, trailing zeros dropped
FloatV(digits, frac) == <<"float", digits, frac>>

Digits == {"0", "1", "2", "3", "4", "5", "6", "7", "8", "9"}

DigitVal(c) ==
    CASE c = "0" -> 0 [] c = "1" -> 1 [] c = "2" -> 2 [] c = "3" -> 3
      [] c = "4" -> 4 [] c = "5" -> 5 [] c = "6" -> 6 [] c = "7" -> 7
      [] c = "8" -> 8 [] c = "9" -> 9

DigitChar(d) == <<"0", "1", "2", "3", "4", "5", "6", "7", "8", "9">>[d + 1]

\* str.isdigit(), over the characters of the model
isdigit(s) == Len(s) > 0 /\ \A k \in 1..Len(s) : s[k] \in Digits

\* the value of a run of decimal digits
RECURSIVE DecimalValue(_)
DecimalValue(s) ==
    IF s = <<>> THEN 0
    ELSE 10 * DecimalValue(SubSeq(s, 1, Len(s) - 1)) + DigitVal(s[Len(s)])

\* int(s) succeeds: an optional sign, then digits
IsIntLiteral(s) ==
    \/ isdigit(s)
    \/ Len(s) > 1 /\ s[1] \in {"+", "-"} /\ isdigit(Tail(s))

\* int(s), for s with IsIntLiteral(s)
int(s) ==
    IF s[1] = "-" THEN 0 - DecimalValue(Tail(s))
    ELSE IF s[1] = "+" THEN DecimalValue(Tail(s))
    ELSE DecimalValue(s)

\* str(n) for n >= 0
RECURSIVE str(_)
str(n) == IF n < 10 THEN <<DigitChar(n)>> ELSE str(n \div 10) \o <<DigitChar(n % 10)>>

\* s.split(sep) for a one-character sep
RECURSIVE split(_, _)
split(s, sep) ==
    IF \A k \in 1..Len(s) : s[k] # sep THEN <<s>>
    ELSE LET k == CHOOSE k \in 1..Len(s) :
                      s[k] = sep /\ \A m \in 1..(k - 1) : s[m] # sep
         IN  <<SubSeq(s, 1, k - 1)>> \o split(SubSeq(s, k + 1, Len(s)), sep)

\* a slip: the segments are always joined with '-'
RECURSIVE join_AlwaysHyphen(_, _)
join_AlwaysHyphen(segs, sep) ==
    IF segs = <<>> THEN <<>>
    ELSE IF Len(segs) = 1 THEN segs[1]
    ELSE segs[1] \o <<"-">> \o join_AlwaysHyphen(Tail(segs), sep)

\* sep.join(segs)
RECURSIVE join(_, _)
join(segs, sep) ==
    IF segs = <<>> THEN <<>>
    ELSE IF Len(segs) = 1 THEN segs[1]
    ELSE segs[1] \o <<sep>> \o join(Tail(segs), sep)

---------------------------------------------------------------------------
(* parse_pgbench_file *)

\* what the function returns: None, or the dict `data`
NoRecord == [ok |-> FALSE]
Record(d) == [ok |-> TRUE, data |-> d]
NotCalled == [ok |-> FALSE, called |-> FALSE]

\* an exception raised inside the try block
Raise == [raised |-> TRUE]
Value(d) == [raised |-> FALSE, data |-> d]

\* the position of the clients marker: the first 'c' followed by a digit
\* segment (lines 26-30); 0 stands for c_index = None
FindCIndex(parts) ==
    LET hits == {k \in 1..Len(parts) :
                    parts[k] = <<"c">> /\ k + 1 <= Len(parts) /\ isdigit(parts[k + 1])}
    IN  IF hits = {} THEN 0 ELSE CHOOSE k \in hits : \A m \in hits : k <= m

\* the fallback fields (lines 51-56 and 59-64)
FallbackFields(filename) ==
    [test_type |-> StrV(filename), clients |-> None, jobs |-> None,
     threshold |-> None, version |-> StrV(<<"u", "n", "k", "n", "o", "w", "n">>),
     run_number |-> None]

\* the threshold test of line 39, t the position after j-{jobs}
HasThreshold(parts, t) ==
    /\ t <= Len(parts)
    /\ parts[t] = <<"t">>
    /\ t + 1 <= Len(parts)
    /\ isdigit(parts[t + 1])

\* a slip: the slice keeps the run number, parts[from:]
VersionParts_KeepsRun(parts, from) == SubSeq(parts, from, Len(parts))

\* the version segments of lines 42 and 46: parts[from:-1]
VersionParts(parts, from) == SubSeq(parts, from, Len(parts) - 1)

\* the branch taken when the marker is found (lines 33-48); c its position
StructuredFields(parts, c) ==
    IF c + 3 > Len(parts) THEN Raise                     \* IndexError, line 35
    ELSE IF ~IsIntLiteral(parts[c + 3]) THEN Raise        \* ValueError, line 35
    ELSE IF ~IsIntLiteral(parts[Len(parts)]) THEN Raise   \* ValueError, line 48
    ELSE LET t == c + 4 IN
         Value([test_type |-> StrV(join(SubSeq(parts, 1, c - 1), "_")),
                clients |-> IntV(int(parts[c + 1])),
                jobs |-> IntV(int(parts[c + 3])),
                threshold |-> IF HasThreshold(parts, t)
                              THEN IntV(int(parts[t + 1])) ELSE None,
                version |-> IF HasThreshold(parts, t)
                            THEN StrV(join(VersionParts(parts, t + 2), "-"))
                            ELSE StrV(join(VersionParts(parts, c + 4), "-")),
                run_number |-> IntV(int(parts[Len(parts)]))])

\* lines 21-64: the fields decoded from the file name
FilenameFields(filename) ==
    LET parts == split(filename, "-") IN
    IF Len(parts) >= 6
    THEN LET c_index == FindCIndex(parts) IN
         IF c_index # 0 THEN StructuredFields(parts, c_index)
         ELSE Value(FallbackFields(filename))
    ELSE Value(FallbackFields(filename))

\* the keys of `patterns` (lines 67-77), in dict order
MetricKeys ==
    <<"scaling_factor", "num_clients", "num_threads", "duration",
      "transactions_processed", "failed_transactions", "latency_avg",
      "initial_connection_time", "tps">>

\* the keys converted with int() (line 82)
IntKeys ==
    {"scaling_factor", "num_clients", "num_threads", "duration",
     "transactions_processed", "failed_transactions"}

\* what a pattern requires right after its capture group
PatternSuffix(key) ==
    CASE key = "duration" -> <<" ", "s">>
      [] key \in {"latency_avg", "initial_connection_time"} -> <<" ", "m", "s">>
      [] key = "tps" -> <<" ", "(without initial connection time)">>
      [] OTHER -> <<>>

\* the characters a pattern's capture group accepts: \d or [\d.]
GroupChars(key) == IF key \in IntKeys THEN Digits ELSE Digits \cup {"."}

\* the longest prefix of s made of characters of cs
RECURSIVE Prefix(_, _)
Prefix(s, cs) ==
    IF s = <<>> \/ s[1] \notin cs THEN <<>> ELSE <<s[1]>> \o Prefix(Tail(s), cs)

StartsWith(s, p) == Len(s) >= Len(p) /\ SubSeq(s, 1, Len(p)) = p

\* the captures a greedy group with backtracking can end on, longest first:
\* the group must be non-empty and the pattern's suffix must follow it
Captures(key, rest) ==
    LET full == Prefix(rest, GroupChars(key)) IN
    {n \in 1..Len(full) :
        StartsWith(SubSeq(rest, n + 1, Len(rest)), PatternSuffix(key))}

\* re.search(pattern, content) for a metric: a content is a sequence of
\* lines [label, rest], rest being the text after the label; the first line
\* of that label the pattern matches gives the capture
NoMatch == [matched |-> FALSE]
Match(s) == [matched |-> TRUE, group |-> s]

Search(key, content) ==
    LET hits == {k \in 1..Len(content) :
                    content[k].label = key /\ Captures(key, content[k].rest) # {}}
    IN  IF hits = {} THEN NoMatch
        ELSE LET k == CHOOSE k \in hits : \A m \in hits : k <= m
                 ns == Captures(key, content[k].rest)
                 n == CHOOSE n \in ns : \A m \in ns : n >= m
             IN  Match(SubSeq(content[k].rest, 1, n))

\* float(s) succeeds, for s made of digits and dots
IsFloatLiteral(s) ==
    /\ Cardinality({k \in 1..Len(s) : s[k] = "."}) <= 1
    /\ \E k \in 1..Len(s) : s[k] \in Digits

\* float(s) as digits / 10^frac, trailing zeros of the fraction dropped
RECURSIVE Normalise(_, _)
Normalise(ds, frac) ==
    IF frac > 0 /\ ds[Len(ds)] = "0"
    THEN Normalise(SubSeq(ds, 1, Len(ds) - 1), frac - 1)
    ELSE FloatV(DecimalValue(ds), frac)

float(s) ==
    LET dots == {k \in 1..Len(s) : s[k] = "."}
        dot == IF dots = {} THEN Len(s) + 1 ELSE CHOOSE k \in dots : TRUE
        frac == IF dots = {} THEN 0 ELSE Len(s) - dot
    IN  Normalise(SubSeq(s, 1, dot - 1) \o SubSeq(s, dot + 1, Len(s)), frac)

\* a slip: a metric that is not found is stored as 0
MetricValue_ZeroWhenMissing(key, content) ==
    LET match == Search(key, content) IN
    IF match.matched
    THEN IF key \in IntKeys THEN Value(IntV(int(match.group)))
         ELSE IF IsFloatLiteral(match.group) THEN Value(float(match.group))
         ELSE Raise
    ELSE Value(IntV(0))

\* lines 79-87 for one key: the value stored, or the ValueError of float()
MetricValue(key, content) ==
    LET match == Search(key, content) IN
    IF match.matched
    THEN IF key \in IntKeys THEN Value(IntV(int(match.group)))
         ELSE IF IsFloatLiteral(match.group) THEN Value(float(match.group))
         ELSE Raise
    ELSE Value(None)

\* lines 90-92: 'transaction type: (.+)' captures the rest of the first such
\* line that is not empty
TxTypeSearch(content) ==
    LET hits == {k \in 1..Len(content) :
                    content[k].label = "transaction_type" /\ content[k].rest # <<>>}
    IN  IF hits = {} THEN NoMatch
        ELSE Match(content[CHOOSE k \in hits : \A m \in hits : k <= m].rest)

\* lines 12-98
parse_pgbench_file(f) ==
    IF ~f.readable THEN NoRecord                          \* open() raises
    ELSE LET fields == FilenameFields(f.stem)
             metrics == [k \in 1..Len(MetricKeys) |-> MetricValue(MetricKeys[k], f.content)]
             tx == TxTypeSearch(f.content)
         IN  IF fields.raised THEN NoRecord
             ELSE IF \E k \in 1..Len(MetricKeys) : metrics[k].raised THEN NoRecord
             ELSE LET d == [k \in DOMAIN fields.data \cup {MetricKeys[m] : m \in 1..Len(MetricKeys)} |->
                               IF k \in DOMAIN fields.data THEN fields.data[k]
                               ELSE metrics[CHOOSE m \in 1..Len(MetricKeys) : MetricKeys[m] = k].data]
                  IN  IF tx.matched
                      THEN Record([k \in DOMAIN d \cup {"transaction_type"} |->
                                      IF k = "transaction_type" THEN StrV(tx.group) ELSE d[k]])
                      ELSE Record(d)

---------------------------------------------------------------------------
(* The files the model reads *)

\* a file name built from the grammar
\*   <type>-c-<clients>-j-<jobs>[-t-<threshold>]-<version>-<run>
Encode(e) ==
    e.type \o <<"-", "c", "-">> \o str(e.clients) \o <<"-", "j", "-">> \o str(e.jobs)
        \o (IF e.threshold = None THEN <<>> ELSE <<"-", "t", "-">> \o str(e.threshold[2]))
        \o <<"-">> \o e.version \o <<"-">> \o str(e.run_number)

NoEnc == [encoded |-> FALSE]

MaxNameSegs == 2   \* '-' separated segments in a type or a version
MaxParts == 6      \* segments of a file name not built from the grammar
MaxLines == 2      \* lines of a file's content
MaxFiles == 3      \* files in ./results

RECURSIVE SeqsUpTo(_, _)
SeqsUpTo(S, n) ==
    IF n = 0 THEN {<<>>}
    ELSE LET shorter == SeqsUpTo(S, n - 1)
         IN  shorter \cup {Append(q, x) : q \in {r \in shorter : Len(r) = n - 1}, x \in S}

TypeStrings ==
    {join(q, "-") : q \in SeqsUpTo({<<"x">>, <<"c">>, <<"7">>}, MaxNameSegs) \ {<<>>}}
VersionStrings ==
    {join(q, "-") : q \in SeqsUpTo({<<"v">>, <<"t">>, <<"7">>}, MaxNameSegs) \ {<<>>}}

Encodings ==
    [encoded : {TRUE}, type : TypeStrings, clients : {7, 10}, jobs : {2},
     threshold : {None, IntV(3)}, version : VersionStrings, run_number : {1, 12}]

RawStems ==
    {join(q, "-") : q \in SeqsUpTo({<<"c">>, <<"j">>, <<"x">>, <<"5">>}, MaxParts) \ {<<>>}}

Labels == {MetricKeys[k] : k \in 1..Len(MetricKeys)} \cup {"transaction_type"}

\* the text after a label: a number, a number with a fraction, a lone dot,
\* each followed by what the label's pattern expects, and a number followed
\* by nothing
AllLines ==
    {[label |-> l, rest |-> t \o PatternSuffix(l)] :
        l \in Labels, t \in {<<"1", "2">>, <<"1", ".", "5">>, <<".">>}}
    \cup {[label |-> l, rest |-> <<"1", "2">>] : l \in Labels}

\* of those, per label, a well-formed line and a lone dot
Lines ==
    {[label |-> l,
      rest |-> (IF l \in IntKeys THEN <<"1", "2">> ELSE <<"1", ".", "5">>) \o PatternSuffix(l)] :
        l \in Labels}
    \cup {[label |-> l, rest |-> <<".">> \o PatternSuffix(l)] : l \in Labels}

Contents == SeqsUpTo(Lines, MaxLines)

\* a complete pgbench report
FullContent ==
    [k \in 1..Len(MetricKeys) |->
        [label |-> MetricKeys[k],
         rest |-> (IF MetricKeys[k] \in IntKeys THEN <<"3">> ELSE <<"0", ".", "5", "0">>)
                  \o PatternSuffix(MetricKeys[k])]]
    \o <<[label |-> "transaction_type", rest |-> <<"x">>]>>

GoodStem == Encode([type |-> <<"x">>, clients |-> 7, jobs |-> 2, threshold |-> IntV(3),
                    version |-> <<"v">>, run_number |-> 1])
OldStem == Encode([type |-> <<"x", "-", "x">>, clients |-> 10, jobs |-> 2, threshold |-> None,
                   version |-> <<"v">>, run_number |-> 12])
ShortStem == <<"x", "-", "5">>
BadJobsStem == <<"x", "-", "c", "-", "5", "-", "j", "-", "x", "-", "v", "-", "1">>
NoJStem == <<"x", "-", "c", "-", "5", "-", "x", "-", "5", "-", "v", "-", "5">>

\* listen-notify-unique-c-5-j-2-v-7-x-1 and listen-notify-unique-c-5-j-2-t-3-v-7-x-1
WordsStem ==
    <<"l", "i", "s", "t", "e", "n", "-", "n", "o", "t", "i", "f", "y", "-",
      "u", "n", "i", "q", "u", "e", "-", "c", "-", "5", "-", "j", "-", "2", "-",
      "v", "-", "7", "-", "x", "-", "1">>
WordsThresholdStem ==
    SubSeq(WordsStem, 1, 29) \o <<"t", "-", "3", "-">> \o SubSeq(WordsStem, 30, Len(WordsStem))

File(stem, content, readable) == [stem |-> stem, content |-> content, readable |-> readable]

\* the files a results directory is drawn from, each under its own name;
\* the last two are a.txt.txt and a.csv.txt
DirFiles ==
    {File(GoodStem, FullContent, TRUE),
     File(OldStem, SubSeq(FullContent, 1, Len(MetricKeys)), TRUE),
     File(ShortStem, <<>>, TRUE),
     File(BadJobsStem, FullContent, TRUE),
     File(<<"x">>, FullContent, FALSE),
     File(<<"5">>, <<[label |-> "tps", rest |-> <<".">> \o PatternSuffix("tps")]>>, TRUE),
     File(<<"a", ".", "t", "x", "t">>, <<>>, TRUE),
     File(<<"a", ".", "c", "s", "v">>, <<>>, TRUE)}

Directories ==
    {d \in SeqsUpTo(DirFiles, MaxFiles) :
        \A a, b \in 1..Len(d) : a # b => d[a].stem # d[b].stem}

---------------------------------------------------------------------------
(* A call of parse_pgbench_file on one file *)

NotReturned == [returned |-> FALSE]
CallIdle == args = <<>> /\ ret = NotReturned
RerunIdle == run = 1 /\ prev = <<>> /\ artifacts = {}

ParseIdle == file = File(<<>>, <<>>, FALSE) /\ enc = NoEnc /\ parsed = NotCalled

MainIdle ==
    /\ dirExists = FALSE /\ txt_files = <<>> /\ i = 0 /\ all_data = <<>>
    /\ csv_files = <<>> /\ combined = [written |-> FALSE]

\* the installed libraries: `strict` when scipy's linregress raises on identical
\* x values, `raises` when pandas' idxmax raises on a column of empty cells
Libraries == [strict : BOOLEAN, raises : BOOLEAN]

AnalysisIdle ==
    /\ env = [strict |-> FALSE, raises |-> FALSE]
    /\ VERSION_COLORS = <<>> /\ color_log = <<>>
    /\ csvExists = FALSE /\ df = <<>> /\ versions = <<>> /\ idx = 0
    /\ results = <<>> /\ regression_info = <<>> /\ phases = <<>> /\ regressions = <<>>

InitParse ==
    /\ script = "parse_pgbench_file" /\ pc = "call" /\ exit_status = -1
    /\ stdout = <<>>
    /\ parsed = NotCalled
    /\ \/ \E e \in Encodings :
             enc = e /\ file = File(Encode(e), FullContent, TRUE)
       \/ \E s \in RawStems \cup {BadJobsStem, NoJStem, WordsStem, WordsThresholdStem} :
             enc = NoEnc /\ file = File(s, FullContent, TRUE)
       \/ \E s \in {GoodStem, ShortStem}, c \in SeqsUpTo(AllLines, 1) :
             enc = NoEnc /\ file = File(s, c, TRUE)
       \/ \E c \in Contents :
             enc = NoEnc /\ file = File(ShortStem, c, TRUE)
       \/ \E s \in {GoodStem, ShortStem}, c \in {<<>>, FullContent} :
             enc = NoEnc /\ file = File(s, c, FALSE)
    /\ MainIdle
    /\ AnalysisIdle
    /\ CallIdle
    /\ RerunIdle

CallParse ==
    /\ script = "parse_pgbench_file" /\ pc = "call"
    /\ parsed' = parse_pgbench_file(file)
    /\ pc' = "returned"
    /\ stdout' = IF parsed' = NoRecord THEN Say(stdout, "Error parsing") ELSE stdout
    /\ UNCHANGED <<script, callVars, rerunVars, exit_status, file, enc, mainVars, analysisVars>>

NextParse == CallParse

SpecParse == InitParse /\ [][NextParse]_vars

---------------------------------------------------------------------------
(* parse_pgbench_csv.main *)

\* list(data.keys()): the keys in the order parse_pgbench_file inserts them
KeyOrder ==
    <<"test_type", "clients", "jobs", "threshold", "version", "run_number">>
        \o MetricKeys \o <<"transaction_type">>

\* sorted() of the keys
SortedKeys ==
    <<"clients", "duration", "failed_transactions", "initial_connection_time",
      "jobs", "latency_avg", "num_clients", "num_threads", "run_number",
      "scaling_factor", "test_type", "threshold", "tps", "transaction_type",
      "transactions_processed", "version">>

InSeq(q, x) == \E k \in 1..Len(q) : q[k] = x
Restrict(order, keys) == SelectSeq(order, LAMBDA k : k \in keys)

\* what csv.DictWriter writes for a row: '' for None and for a missing key
EmptyCell == StrV(<<>>)
CsvRow(fieldnames, d) ==
    [k \in {fieldnames[n] : n \in 1..Len(fieldnames)} |->
        IF k \in DOMAIN d /\ d[k] # None THEN d[k] ELSE EmptyCell]

InitMain ==
    /\ script = "parse_pgbench_csv" /\ pc = "start" /\ exit_status = -1
    /\ stdout = <<>>
    /\ ParseIdle
    /\ AnalysisIdle
    /\ CallIdle
    /\ RerunIdle
    /\ \/ dirExists = FALSE /\ txt_files = <<>>
       \/ dirExists = TRUE /\ txt_files \in Directories
    /\ i = 0 /\ all_data = <<>> /\ csv_files = <<>>
    /\ combined = [written |-> FALSE]

\* lines 102-106
MainCheckDir ==
    /\ script = "parse_pgbench_csv" /\ pc = "start"
    /\ IF ~dirExists
       THEN /\ stdout' = Say(stdout, "Results directory not found!")
            /\ pc' = "done" /\ exit_status' = 0
       ELSE /\ pc' = "glob" /\ UNCHANGED <<stdout, exit_status>>
    /\ UNCHANGED <<script, callVars, rerunVars, parseVars, mainVars, analysisVars>>

\* lines 109-115
MainGlob ==
    /\ script = "parse_pgbench_csv" /\ pc = "glob"
    /\ IF txt_files = <<>>
       THEN /\ stdout' = Say(stdout, "No .txt files found in results directory!")
            /\ pc' = "done" /\ exit_status' = 0 /\ i' = i
       ELSE /\ stdout' = Say(stdout, "Found result files to process...")
            /\ pc' = "parse" /\ i' = 1 /\ exit_status' = exit_status
    /\ UNCHANGED <<script, callVars, rerunVars, parseVars, analysisVars, dirExists, txt_files, all_data, csv_files,
                   combined>>

\* a slip: the loop is left at the first file that yields no record
MainParse_StopsOnFailure ==
    /\ script = "parse_pgbench_csv" /\ pc = "parse" /\ i <= Len(txt_files)
    /\ LET data == parse_pgbench_file(txt_files[i]) IN
       /\ all_data' = IF data.ok THEN Append(all_data, data.data) ELSE all_data
       /\ i' = IF data.ok THEN i + 1 ELSE Len(txt_files) + 1
       /\ stdout' = IF data.ok THEN Say(stdout, "Processing")
                    ELSE Say(Say(stdout, "Processing"), "Error parsing")
    /\ UNCHANGED <<script, callVars, rerunVars, pc, exit_status, parseVars, analysisVars, dirExists,
                   txt_files, csv_files, combined>>

\* lines 119-123, one iteration
MainParse ==
    /\ script = "parse_pgbench_csv" /\ pc = "parse" /\ i <= Len(txt_files)
    /\ LET data == parse_pgbench_file(txt_files[i]) IN
       /\ all_data' = IF data.ok THEN Append(all_data, data.data) ELSE all_data
       /\ stdout' = IF data.ok THEN Say(stdout, "Processing")
                    ELSE Say(Say(stdout, "Processing"), "Error parsing")
    /\ i' = i + 1
    /\ UNCHANGED <<script, callVars, rerunVars, pc, exit_status, parseVars, analysisVars, dirExists,
                   txt_files, csv_files, combined>>

\* lines 125-127, after the loop
MainCheckData ==
    /\ script = "parse_pgbench_csv" /\ pc = "parse" /\ i > Len(txt_files)
    /\ IF all_data = <<>>
       THEN /\ stdout' = Say(stdout, "No data extracted from files!")
            /\ pc' = "done" /\ exit_status' = 0 /\ i' = i
       ELSE /\ pc' = "write" /\ i' = 1 /\ UNCHANGED <<stdout, exit_status>>
    /\ UNCHANGED <<script, callVars, rerunVars, parseVars, analysisVars, dirExists, txt_files, all_data, csv_files,
                   combined>>

\* s.replace(old, new): every occurrence of old, from the left
RECURSIVE replace(_, _, _)
replace(s, old, new) ==
    IF Len(s) < Len(old) THEN s
    ELSE IF SubSeq(s, 1, Len(old)) = old
    THEN new \o replace(SubSeq(s, Len(old) + 1, Len(s)), old, new)
    ELSE <<s[1]>> \o replace(Tail(s), old, new)

\* line 133, on the file name (the directory part holds no '.txt')
csv_filename(stem) ==
    replace(stem \o <<".", "t", "x", "t">>, <<".", "t", "x", "t">>, <<".", "c", "s", "v">>)

\* lines 130-139, one iteration: the file is parsed again and its CSV written
MainWriteCsv ==
    /\ script = "parse_pgbench_csv" /\ pc = "write" /\ i <= Len(txt_files)
    /\ LET data == parse_pgbench_file(txt_files[i]) IN
       IF data.ok
       THEN LET fieldnames == Restrict(KeyOrder, DOMAIN data.data) IN
            /\ csv_files' = Append(csv_files,
                                [stem |-> txt_files[i].stem,
                                 name |-> csv_filename(txt_files[i].stem),
                                 fieldnames |-> fieldnames,
                                 row |-> CsvRow(fieldnames, data.data)])
            /\ stdout' = Say(stdout, "Created csv")
       ELSE /\ csv_files' = csv_files
            /\ stdout' = Say(stdout, "Error parsing")
    /\ i' = i + 1
    /\ UNCHANGED <<script, callVars, rerunVars, pc, exit_status, parseVars, analysisVars, dirExists,
                   txt_files, all_data, combined>>

\* a slip: the header is the first record's keys, not the union
MainWriteCombined_FirstKeys ==
    /\ script = "parse_pgbench_csv" /\ pc = "write" /\ i > Len(txt_files)
    /\ LET fieldnames == Restrict(SortedKeys, DOMAIN all_data[1]) IN
       combined' = [written |-> TRUE, fieldnames |-> fieldnames,
                    rows |-> [k \in 1..Len(all_data) |-> CsvRow(fieldnames, all_data[k])]]
    /\ stdout' = Say(Say(stdout, "Created combined CSV file"), "Successfully processed")
    /\ pc' = "done" /\ exit_status' = 0
    /\ UNCHANGED <<script, callVars, rerunVars, parseVars, analysisVars, dirExists, txt_files, i, all_data,
                   csv_files>>

\* lines 142-155: all_data is not empty here (line 125)
MainWriteCombined ==
    /\ script = "parse_pgbench_csv" /\ pc = "write" /\ i > Len(txt_files)
    /\ LET fieldnames ==
               Restrict(SortedKeys, UNION {DOMAIN all_data[k] : k \in 1..Len(all_data)})
       IN  combined' = [written |-> TRUE, fieldnames |-> fieldnames,
                        rows |-> [k \in 1..Len(all_data) |-> CsvRow(fieldnames, all_data[k])]]
    /\ stdout' = Say(Say(stdout, "Created combined CSV file"), "Successfully processed")
    /\ pc' = "done" /\ exit_status' = 0
    /\ UNCHANGED <<script, callVars, rerunVars, parseVars, analysisVars, dirExists, txt_files, i, all_data,
                   csv_files>>

NextMain ==
    \/ MainCheckDir
    \/ MainGlob
    \/ MainParse
    \/ MainCheckData
    \/ MainWriteCsv
    \/ MainWriteCombined

SpecMain == InitMain /\ [][NextMain]_vars

---------------------------------------------------------------------------
(* The table read by analyze_scaling, plot_candlestick and plot_stats *)

\* a row is [version, connections, median_ms]; a latency is held in
\* thousandths of a millisecond, so that a slope in ms per connection times
\* 1000 (slope_us) is the slope of the numbers held here; plot_stats reads
\* its avg_ms column where the others read median_ms
NaN == 0 - 1   \* an empty connections cell

MaxRows == 3    \* rows of a table
MaxSweep == 11  \* rows of the rising part of a connection sweep
MaxVersions == 11  \* versions of a table with one row per version

Row(v, c, m) == [version |-> v, connections |-> c, median_ms |-> m]

\* for analyze_scaling: up to MaxRows rows of version "A", then at most one row
\* of version "B"
ScalingTables ==
    {a \o b : a \in SeqsUpTo([version : {"A"}, connections : {50, 100, 200},
                               median_ms : {0, 10, 20}], MaxRows),
              b \in {<<>>, <<Row("B", 100, 10)>>, <<Row("B", 200, 20)>>}}
CandleTables ==
    SeqsUpTo([version : {"A", "B"}, connections : {NaN, 50, 100, 150, 200, 2000}, median_ms : {10}],
             MaxRows)
StatsTables ==
    SeqsUpTo([version : {"A"}, connections : {NaN, 50, 100, 200}, median_ms : {10}], MaxRows)

\* a sweep of one version: connections 100, 200, ... up, then `down` rows back
Sweep(up, down) ==
    [k \in 1..(up + down) |->
        Row("A", IF k <= up THEN 100 * k ELSE 100 * (2 * up - k), 10 + k)]
SweepTables == {Sweep(up, down) : up \in 9..MaxSweep, down \in 0..1}

\* one row per version, versions v1, v2, ...
ManyVersions(n) == [k \in 1..n |-> Row("v" \o ToString(k), 100 * k, 10)]
ManyVersionTables == {ManyVersions(n) : n \in 9..MaxVersions}

---------------------------------------------------------------------------
(* pandas and scipy, as far as the scripts use them *)

Range(q) == {q[k] : k \in 1..Len(q)}

\* the versions in order of first appearance
\* (analyze_scaling 18-21, plot_candlestick 67-70 and 440-443)
UniqueVersions(tbl) ==
    LET firsts == SelectSeq([k \in 1..Len(tbl) |-> k],
                            LAMBDA k : \A m \in 1..(k - 1) : tbl[m].version # tbl[k].version)
    IN  [k \in 1..Len(firsts) |-> tbl[firsts[k]].version]

\* df[df['version'] == version]: the labels (1-based positions in the table)
\* of the version's rows, in table order
VersionRows(tbl, v) ==
    SelectSeq([k \in 1..Len(tbl) |-> k], LAMBDA k : tbl[k].version = v)

AllRows(tbl) == [k \in 1..Len(tbl) |-> k]

\* Series.idxmax() over the rows `labels`: the label of the first row holding
\* the greatest connections value, empty cells skipped; 0 when every cell is
\* empty (pandas then returns NaN or raises, by version)
IdxMax(tbl, labels) ==
    LET usable == {k \in 1..Len(labels) : tbl[labels[k]].connections # NaN}
    IN  IF usable = {} THEN 0
        ELSE labels[CHOOSE k \in usable :
                 /\ \A m \in usable :
                        tbl[labels[m]].connections <= tbl[labels[k]].connections
                 /\ \A m \in usable :
                        tbl[labels[m]].connections = tbl[labels[k]].connections => k <= m]

Min(a, b) == IF a <= b THEN a ELSE b

\* version_df.iloc[:max_conn_idx + 1] (plot_candlestick 99-100 and 294-295,
\* plot_stats 98-99): max_conn_idx is a row LABEL of the whole table, and
\* iloc counts POSITIONS inside the subset, so the slice keeps as many rows
\* of the subset as the peak row's place in the whole table (the source's
\* label + 1 is the 1-based label here)
IncreasingPhase(tbl, labels) ==
    SubSeq(labels, 1, Min(IdxMax(tbl, labels), Len(labels)))

Sum(f, S) ==
    LET RECURSIVE Acc(_)
        Acc(T) == IF T = {} THEN 0
                  ELSE LET x == CHOOSE x \in T : TRUE IN f[x] + Acc(T \ {x})
    IN  Acc(S)

Abs(x) == IF x < 0 THEN 0 - x ELSE x

\* a number as a fraction <<numerator, denominator>>; denominator 0 is nan
Zero == <<0, 1>>

RECURSIVE GCD(_, _)
GCD(a, b) == IF b = 0 THEN a ELSE GCD(b, a % b)

\* the fraction n / d in lowest terms, d >= 0
Fraction(n, d) ==
    IF d = 0 THEN <<n, 0>>
    ELSE LET g == GCD(Abs(n), d) IN <<n \div g, d \div g>>

\* scipy.stats.linregress(x, y) over the rows `labels`: the slope
\* (n Sxy - Sx Sy) / (n Sxx - Sx Sx), the intercept mean(y) - slope mean(x)
\* and r squared; with all x identical scipy raises ValueError (`strict`),
\* or, in releases before that check, divides 0 by 0
LinRegress(tbl, labels, strict) ==
    LET n == Len(labels)
        D == 1..n
        x == [k \in D |-> tbl[labels[k]].connections]
        y == [k \in D |-> tbl[labels[k]].median_ms]
        sx == Sum(x, D)
        sy == Sum(y, D)
        sxy == Sum([k \in D |-> x[k] * y[k]], D)
        sxx == Sum([k \in D |-> x[k] * x[k]], D)
        syy == Sum([k \in D |-> y[k] * y[k]], D)
        num == n * sxy - sx * sy
        den == n * sxx - sx * sx
        deny == n * syy - sy * sy
        slope == Fraction(num, den)
        r == Fraction(Abs(num), deny)
    IN  IF den = 0 /\ n > 1 /\ strict THEN Raise
        ELSE [raised |-> FALSE,
              slope |-> slope,
              intercept |-> Fraction(sy * slope[2] - slope[1] * sx, n * slope[2]),
              r_squared |-> IF den = 0 \/ deny = 0 THEN Zero
                            ELSE Fraction(Abs(slope[1]) * r[1], slope[2] * r[2]),
              mean |-> Fraction(sy, n)]

---------------------------------------------------------------------------
(* analyze_scaling.py *)

MinScalingConnections == 100   \* line 31
MinScalingRows == 3            \* line 33

InitScaling ==
    /\ script = "analyze_scaling" /\ pc = "start" /\ exit_status = -1
    /\ stdout = <<>>
    /\ env \in Libraries
    /\ VERSION_COLORS = <<>> /\ color_log = <<>>
    /\ \/ csvExists = FALSE /\ df = <<>>
       \/ csvExists = TRUE /\ df \in ScalingTables
    /\ versions = <<>> /\ idx = 0
    /\ results = <<>> /\ regression_info = <<>> /\ phases = <<>> /\ regressions = <<>>

\* lines 15-27: read_csv raises FileNotFoundError when the file is missing
ScalingRead ==
    /\ script = "analyze_scaling" /\ pc = "start"
    /\ IF ~csvExists
       THEN /\ pc' = "crashed" /\ exit_status' = 1
            /\ UNCHANGED <<versions, idx, stdout>>
       ELSE /\ versions' = UniqueVersions(df)
            /\ idx' = 1
            /\ pc' = "versions"
            /\ stdout' = Say(stdout, "PostgreSQL LISTEN/NOTIFY Scaling Analysis")
            /\ UNCHANGED exit_status
    /\ UNCHANGED <<script, callVars, rerunVars, parseVars, mainVars, env, VERSION_COLORS, color_log, csvExists, df, results, regression_info,
                   phases, regressions>>

\* line 31: the version's rows with connections >= 100
ScalingRows(tbl, v) ==
    SelectSeq(VersionRows(tbl, v),
              LAMBDA k : tbl[k].connections # NaN
                         /\ tbl[k].connections >= MinScalingConnections)

\* a slip: the sign of the slope is not dropped
IsO1_Signed(slope_us) == 10 * slope_us[1] < slope_us[2]

\* line 54: abs(slope_us) < 0.1; a comparison with nan is False
IsO1(slope_us) == 10 * Abs(slope_us[1]) < slope_us[2]

\* lines 56-74: the result of a regressed version
ScalingResult(v, reg) ==
    [version |-> v,
     complexity |-> IF IsO1(reg.slope) THEN "O(1)" ELSE "O(N)",
     slope_us |-> reg.slope,
     intercept |-> reg.intercept,
     mean_latency |-> reg.mean,
     r_squared |-> reg.r_squared,
     formula |-> IF IsO1(reg.slope)
                 THEN [kind |-> "constant", mean |-> reg.mean]
                 ELSE [kind |-> "linear", intercept |-> reg.intercept, slope_us |-> reg.slope]]

\* a slip: a version needs more than 3 rows
ScalingVersion_MoreThanThree ==
    /\ script = "analyze_scaling" /\ pc = "versions" /\ idx <= Len(versions)
    /\ LET version == versions[idx]
           version_df == ScalingRows(df, version)
       IN  IF Len(version_df) <= MinScalingRows
           THEN /\ stdout' = SayOf(stdout, "Insufficient data for", version)
                /\ regressions' = Append(regressions,
                       [fn |-> "analyze_scaling", version |-> version,
                        rows |-> version_df, called |-> FALSE])
                /\ idx' = idx + 1
                /\ UNCHANGED <<pc, exit_status, results>>
           ELSE LET strict == env.strict IN
                LET reg == LinRegress(df, version_df, strict) IN
                /\ regressions' = Append(regressions,
                       [fn |-> "analyze_scaling", version |-> version,
                        rows |-> version_df, called |-> TRUE])
                /\ IF reg.raised
                   THEN /\ pc' = "crashed" /\ exit_status' = 1
                        /\ UNCHANGED <<idx, results, stdout>>
                   ELSE /\ results' = Append(results, ScalingResult(version, reg))
                        /\ stdout' = SayOf(stdout, "Version:", version)
                        /\ idx' = idx + 1
                        /\ UNCHANGED <<pc, exit_status>>
    /\ UNCHANGED <<script, callVars, rerunVars, parseVars, mainVars, env, VERSION_COLORS, color_log, csvExists, df, versions, regression_info,
                   phases>>

\* lines 29-85, one iteration
ScalingVersion ==
    /\ script = "analyze_scaling" /\ pc = "versions" /\ idx <= Len(versions)
    /\ LET version == versions[idx]
           version_df == ScalingRows(df, version)
       IN  IF Len(version_df) < MinScalingRows
           THEN /\ stdout' = SayOf(stdout, "Insufficient data for", version)
                /\ regressions' = Append(regressions,
                       [fn |-> "analyze_scaling", version |-> version,
                        rows |-> version_df, called |-> FALSE])
                /\ idx' = idx + 1
                /\ UNCHANGED <<pc, exit_status, results>>
           ELSE LET strict == env.strict IN
                LET reg == LinRegress(df, version_df, strict) IN
                /\ regressions' = Append(regressions,
                       [fn |-> "analyze_scaling", version |-> version,
                        rows |-> version_df, called |-> TRUE])
                /\ IF reg.raised
                   THEN /\ pc' = "crashed" /\ exit_status' = 1
                        /\ UNCHANGED <<idx, results, stdout>>
                   ELSE /\ results' = Append(results, ScalingResult(version, reg))
                        /\ stdout' = SayOf(stdout, "Version:", version)
                        /\ idx' = idx + 1
                        /\ UNCHANGED <<pc, exit_status>>
    /\ UNCHANGED <<script, callVars, rerunVars, parseVars, mainVars, env, VERSION_COLORS, color_log, csvExists, df, versions, regression_info,
                   phases>>

\* lines 87-116: the summary table and the counts
ScalingSummary ==
    /\ script = "analyze_scaling" /\ pc = "versions" /\ idx > Len(versions)
    /\ stdout' = Say(stdout, "Summary Table")
    /\ pc' = "done" /\ exit_status' = 0
    /\ UNCHANGED <<script, callVars, rerunVars, parseVars, mainVars, analysisVars>>

---------------------------------------------------------------------------
(* plot_candlestick.py *)

RegressionLo == 100        \* line 146
RegressionHi == 1000       \* line 147
CandleMinRows == 1         \* line 150: len(regression_df) > 1

\* lines 145-148 and 340-343: the rows of the increasing phase in [100, 1000]
RegressionRows(tbl, increasing) ==
    SelectSeq(increasing,
              LAMBDA k : /\ tbl[k].connections # NaN
                         /\ tbl[k].connections >= RegressionLo
                         /\ tbl[k].connections <= RegressionHi)

\* lines 95-182 and 290-369 for one version: the increasing phase, the
\* regression rows and the regression, or the exception that ends the run
\* (idxmax of a column of empty cells gives NaN, refused by iloc, or raises)
VersionAnalysis(tbl, v, fn, strict) ==
    LET version_df == VersionRows(tbl, v) IN
    IF IdxMax(tbl, version_df) = 0 THEN Raise
    ELSE LET increasing_df == IncreasingPhase(tbl, version_df)
             regression_df == RegressionRows(tbl, increasing_df)
             called == Len(regression_df) > CandleMinRows
             reg == IF called THEN LinRegress(tbl, regression_df, strict)
                    ELSE [raised |-> FALSE, slope |-> Zero, intercept |-> Zero,
                          r_squared |-> Zero]
         IN  IF reg.raised THEN Raise
             ELSE [raised |-> FALSE,
                   phase |-> [fn |-> fn, version |-> v, rows |-> increasing_df],
                   regression |-> [fn |-> fn, version |-> v, rows |-> regression_df,
                                   called |-> called],
                   info |-> [version |-> v, slope_us |-> reg.slope,
                             intercept |-> reg.intercept, r_squared |-> reg.r_squared]]

\* a < b for two fractions; a comparison with nan is False
Less(a, b) == a[2] # 0 /\ b[2] # 0 /\ a[1] * b[2] < b[1] * a[2]

\* line 250: regression_info.sort(key=slope_us), a stable sort
RECURSIVE SortBySlope(_)
SortBySlope(q) ==
    IF q = <<>> THEN <<>>
    ELSE LET e == q[Len(q)]
             sorted == SortBySlope(SubSeq(q, 1, Len(q) - 1))
             after == {k \in 1..Len(sorted) : Less(e.slope_us, sorted[k].slope_us)}
             at == IF after = {} THEN Len(sorted) + 1
                   ELSE CHOOSE k \in after : \A m \in after : k <= m
         IN  SubSeq(sorted, 1, at - 1) \o <<e>> \o SubSeq(sorted, at, Len(sorted))

TabSize == 10   \* line 27: the number of colours of tab10

\* plt.cm.get_cmap('tab10')(k), k = 0..9, in the hex form of line 32
\* (int(c * 255) gives back each colour's byte exactly)
Tab10 ==
    <<"#1f77b4", "#ff7f0e", "#2ca02c", "#d62728", "#9467bd",
      "#8c564b", "#e377c2", "#7f7f7f", "#bcbd22", "#17becf">>

\* a slip: the colour is assigned on every call, not only on first sight
get_color_from_version_Reassigns(colors, version) ==
    LET color == Tab10[(Cardinality(DOMAIN colors) % TabSize) + 1]
        after == [v \in DOMAIN colors \cup {version} |->
                     IF v = version THEN color ELSE colors[v]]
    IN  [VERSION_COLORS |-> after, color |-> after[version]]

\* lines 18-32: `colors` is VERSION_COLORS before the call; the result holds
\* VERSION_COLORS after it and the colour returned
get_color_from_version(colors, version) ==
    LET after == IF version \notin DOMAIN colors
                 THEN [v \in DOMAIN colors \cup {version} |->
                          IF v = version
                          THEN Tab10[(Cardinality(DOMAIN colors) % TabSize) + 1]
                          ELSE colors[v]]
                 ELSE colors
    IN  [VERSION_COLORS |-> after, color |-> after[version]]

\* lines 87 and 282: [get_color_from_version(v) for v in vs]
RECURSIVE Colors(_, _)
Colors(colors, vs) ==
    IF vs = <<>> THEN [VERSION_COLORS |-> colors, colors |-> <<>>]
    ELSE LET first == get_color_from_version(colors, Head(vs))
             rest == Colors(first.VERSION_COLORS, Tail(vs))
         IN  [VERSION_COLORS |-> rest.VERSION_COLORS,
              colors |-> <<first.color>> \o rest.colors]

Logged(fn, vs, cs) == [k \in 1..Len(vs) |-> [fn |-> fn, version |-> vs[k], color |-> cs[k]]]

InitCandle ==
    /\ script = "plot_candlestick" /\ pc = "start" /\ exit_status = -1
    /\ stdout = <<>>
    /\ env \in Libraries
    /\ VERSION_COLORS = <<>> /\ color_log = <<>>
    /\ \/ csvExists = FALSE /\ df = <<>>
       \/ csvExists = TRUE /\ df \in CandleTables \cup ManyVersionTables
    /\ versions = <<>> /\ idx = 0
    /\ results = <<>> /\ regression_info = <<>> /\ phases = <<>> /\ regressions = <<>>

\* lines 54-71
CandleRead ==
    /\ script = "plot_candlestick" /\ pc = "start"
    /\ IF ~csvExists
       THEN /\ stdout' = Say(stdout, "Error: not found")
            /\ pc' = "done" /\ exit_status' = 1
            /\ UNCHANGED <<versions, idx, VERSION_COLORS, color_log>>
       ELSE IF df = <<>>
       THEN /\ stdout' = Say(stdout, "Error: is empty")
            /\ pc' = "done" /\ exit_status' = 1
            /\ UNCHANGED <<versions, idx, VERSION_COLORS, color_log>>
       ELSE LET c == Colors(VERSION_COLORS, UniqueVersions(df)) IN
            /\ versions' = UniqueVersions(df)
            /\ VERSION_COLORS' = c.VERSION_COLORS
            /\ color_log' = color_log \o Logged("plot_candlestick_comparison",
                                                UniqueVersions(df), c.colors)
            /\ idx' = 1
            /\ pc' = "versions"
            /\ UNCHANGED <<stdout, exit_status>>
    /\ UNCHANGED <<script, callVars, rerunVars, parseVars, mainVars, env, csvExists, df, results, regression_info,
                   phases, regressions>>

\* lines 94-182, one iteration
CandleVersion ==
    /\ script = "plot_candlestick" /\ pc = "versions" /\ idx <= Len(versions)
    /\ LET strict == env.strict IN
          LET a == VersionAnalysis(df, versions[idx], "plot_candlestick_comparison", strict)
          IN  IF a.raised
              THEN /\ pc' = "crashed" /\ exit_status' = 1
                   /\ UNCHANGED <<idx, regression_info, phases, regressions>>
              ELSE /\ phases' = Append(phases, a.phase)
                   /\ regressions' = Append(regressions, a.regression)
                   /\ regression_info' = Append(regression_info, a.info)
                   /\ idx' = idx + 1
                   /\ UNCHANGED <<pc, exit_status>>
    /\ UNCHANGED <<script, callVars, rerunVars, parseVars, mainVars, env, VERSION_COLORS, color_log, csvExists, df, versions, results, stdout>>

\* lines 184-258, then lines 438-445 of the script body
CandleSave ==
    /\ script = "plot_candlestick" /\ pc = "versions" /\ idx > Len(versions)
    /\ regression_info' = SortBySlope(regression_info)
    /\ stdout' = Say(Say(stdout, "Plot saved to"), "Linear Regression Summary")
    /\ pc' = "pairs" /\ idx' = 1
    /\ UNCHANGED <<script, callVars, rerunVars, exit_status, parseVars, mainVars, env, VERSION_COLORS, color_log, csvExists, df, versions,
                   results, phases, regressions>>

\* lines 446-453, one iteration: plot_version_pair (lines 261-428) on two
\* consecutive versions
CandlePair ==
    /\ script = "plot_candlestick" /\ pc = "pairs" /\ idx <= Len(versions) - 1
    /\ LET pair == <<versions[idx], versions[idx + 1]>>
           c == Colors(VERSION_COLORS, pair)
       IN  /\ VERSION_COLORS' = c.VERSION_COLORS
           /\ color_log' = color_log \o Logged("plot_version_pair", pair, c.colors)
    /\ LET strict == env.strict IN
          LET a == VersionAnalysis(df, versions[idx], "plot_version_pair", strict)
              b == VersionAnalysis(df, versions[idx + 1], "plot_version_pair", strict)
          IN  IF a.raised
              THEN /\ pc' = "crashed" /\ exit_status' = 1
                   /\ UNCHANGED <<idx, phases, regressions, stdout>>
              ELSE IF b.raised
              THEN /\ pc' = "crashed" /\ exit_status' = 1
                   /\ phases' = Append(phases, a.phase)
                   /\ regressions' = Append(regressions, a.regression)
                   /\ UNCHANGED <<idx, stdout>>
              ELSE /\ phases' = phases \o <<a.phase, b.phase>>
                   /\ regressions' = regressions \o <<a.regression, b.regression>>
                   /\ stdout' = Say(stdout, "Saved to")
                   /\ idx' = idx + 1
                   /\ UNCHANGED <<pc, exit_status>>
    /\ UNCHANGED <<script, callVars, rerunVars, parseVars, mainVars, env, csvExists, df, versions, results,
                   regression_info>>

\* the end of the script body
CandleExit ==
    /\ script = "plot_candlestick" /\ pc = "pairs" /\ idx > Len(versions) - 1
    /\ pc' = "done" /\ exit_status' = 0
    /\ UNCHANGED <<script, callVars, rerunVars, parseVars, mainVars, analysisVars, stdout>>

---------------------------------------------------------------------------
(* plot_stats.py *)

StatsMinRows == 10   \* line 100: len(increasing_phase) > 10

InitStats ==
    /\ script = "plot_stats" /\ pc = "start" /\ exit_status = -1
    /\ stdout = <<>>
    /\ env \in Libraries
    /\ VERSION_COLORS = <<>> /\ color_log = <<>>
    /\ \/ csvExists = FALSE /\ df = <<>>
       \/ csvExists = TRUE /\ df \in StatsTables \cup SweepTables
    /\ versions = <<>> /\ idx = 0
    /\ results = <<>> /\ regression_info = <<>> /\ phases = <<>> /\ regressions = <<>>

\* lines 15-25
StatsRead ==
    /\ script = "plot_stats" /\ pc = "start"
    /\ IF ~csvExists
       THEN /\ stdout' = Say(stdout, "Error: not found")
            /\ pc' = "done" /\ exit_status' = 1
       ELSE IF df = <<>>
       THEN /\ stdout' = Say(stdout, "Error: is empty")
            /\ pc' = "done" /\ exit_status' = 1
       ELSE /\ pc' = "plot"
            /\ UNCHANGED <<stdout, exit_status>>
    /\ UNCHANGED <<script, callVars, rerunVars, parseVars, mainVars, analysisVars>>

\* lines 27-95: idxmax at line 77 raises on a column of empty cells in the
\* pandas releases that do not return NaN
StatsPlot ==
    /\ script = "plot_stats" /\ pc = "plot"
    /\ LET raises == env.raises IN
          IF IdxMax(df, AllRows(df)) = 0 /\ raises
          THEN /\ pc' = "crashed" /\ exit_status' = 1
               /\ UNCHANGED stdout
          ELSE /\ pc' = "regression"
               /\ stdout' = Say(Say(stdout, "Plot saved to"), "Summary Statistics:")
               /\ UNCHANGED exit_status
    /\ UNCHANGED <<script, callVars, rerunVars, parseVars, mainVars, analysisVars>>

\* lines 97-112: iloc refuses the NaN that idxmax gave for empty cells
StatsRegression ==
    /\ script = "plot_stats" /\ pc = "regression"
    /\ IF IdxMax(df, AllRows(df)) = 0
       THEN /\ pc' = "crashed" /\ exit_status' = 1
            /\ UNCHANGED <<phases, regressions, stdout>>
       ELSE LET strict == env.strict IN
            LET increasing_phase == IncreasingPhase(df, AllRows(df))
                called == Len(increasing_phase) > StatsMinRows
                reg == IF called THEN LinRegress(df, increasing_phase, strict)
                       ELSE [raised |-> FALSE]
            IN  /\ phases' = Append(phases, [fn |-> "plot_stats", version |-> "",
                                             rows |-> increasing_phase])
                /\ regressions' = Append(regressions,
                       [fn |-> "plot_stats", version |-> "", rows |-> increasing_phase,
                        called |-> called])
                /\ IF reg.raised
                   THEN pc' = "crashed" /\ exit_status' = 1 /\ UNCHANGED stdout
                   ELSE /\ pc' = "done" /\ exit_status' = 0
                        /\ stdout' = IF called
                                     THEN Say(stdout, "Linear regression (increasing phase):")
                                     ELSE stdout
    /\ UNCHANGED <<script, callVars, rerunVars, parseVars, mainVars, env, VERSION_COLORS, color_log, csvExists, df, versions, idx, results,
                   regression_info>>

---------------------------------------------------------------------------
(* A run of one of the three analysis scripts *)

InitAnalysis ==
    /\ ParseIdle
    /\ MainIdle
    /\ CallIdle
    /\ RerunIdle
    /\ InitScaling \/ InitCandle \/ InitStats

NextAnalysis ==
    \/ ScalingRead
    \/ ScalingVersion
    \/ ScalingSummary
    \/ CandleRead
    \/ CandleVersion
    \/ CandleSave
    \/ CandlePair
    \/ CandleExit
    \/ StatsRead
    \/ StatsPlot
    \/ StatsRegression

SpecAnalysis == InitAnalysis /\ [][NextAnalysis]_vars

---------------------------------------------------------------------------
(* Percentage change against a baseline: plot.py, plot_pgbench.py, plot_stats.py *)

Sgn(x) == IF x > 0 THEN 1 ELSE IF x < 0 THEN 0 - 1 ELSE 0

\* a slip: the change is divided by the current value
PercentChange_OfCurrent(baseline, current) ==
    IF current = 0 THEN <<Sgn(current - baseline), 0>>
    ELSE IF current > 0 THEN Fraction((current - baseline) * 100, current)
    ELSE Fraction((baseline - current) * 100, 0 - current)

\* ((current - baseline) / baseline) * 100 on numpy numbers (plot.py 18,
\* plot_pgbench 334, plot_stats 67), as a fraction; with a zero baseline the
\* division gives inf, -inf or nan: <<1, 0>>, <<-1, 0>>, <<0, 0>>
PercentChange(baseline, current) ==
    IF baseline = 0 THEN <<Sgn(current - baseline), 0>>
    ELSE IF baseline > 0 THEN Fraction((current - baseline) * 100, baseline)
    ELSE Fraction((baseline - current) * 100, 0 - baseline)

\* |q| in tenths, rounded to the nearest, a tie to the even one
Tenths(q) ==
    LET a == Abs(q[1]) * 10
        t == a \div q[2]
        r == a % q[2]
    IN  IF 2 * r > q[2] \/ (2 * r = q[2] /\ t % 2 = 1) THEN t + 1 ELSE t

\* format(q, '.1f'), or format(q, '+.1f') when plus
FormatF1(q, plus) ==
    LET sign == IF q[1] < 0 THEN <<"-">> ELSE IF plus THEN <<"+">> ELSE <<>> IN
    IF q[2] = 0 THEN sign \o (IF q[1] = 0 THEN <<"n", "a", "n">> ELSE <<"i", "n", "f">>)
    ELSE sign \o str(Tenths(q) \div 10) \o <<".", DigitChar(Tenths(q) % 10)>>

\* plot.py lines 16-19
format_percentage_change(baseline_tps, current_tps) ==
    FormatF1(PercentChange(baseline_tps, current_tps), TRUE) \o <<"%">>

\* q > 0 for a fraction, inf or nan
Positive(q) == q[1] > 0

\* plot_stats lines 66-67 and 94: the series of increases from the first row
\* and the text printed for its greatest element (max() skips nan)
pct_increase(avg_ms) ==
    LET baseline_avg == avg_ms[1]
        series == [k \in 1..Len(avg_ms) |-> PercentChange(baseline_avg, avg_ms[k])]
        usable == {k \in 1..Len(series) : series[k] # <<0, 0>>}
        top == IF usable = {} THEN <<0, 0>>
               ELSE series[CHOOSE k \in usable :
                        \A m \in usable :
                            \/ series[k][2] = 0 /\ series[k][1] > 0
                            \/ /\ series[m][2] # 0 /\ series[k][2] # 0
                               /\ series[m][1] * series[k][2] <= series[k][1] * series[m][2]
                            \/ series[m][2] = 0 /\ series[m][1] < 0]
    IN  [series |-> series, text |-> FormatF1(top, FALSE) \o <<"%">>]

---------------------------------------------------------------------------
(* plot_pgbench.py: labels and the markdown line of a version *)

Master == <<"m", "a", "s", "t", "e", "r">>
FloatNaN == <<"nan">>

\* pd.read_csv's threshold column (line 109) from the texts of its cells, ''
\* for an empty cell: int64 when no cell is empty, else float64 with NaN for
\* the empty cells; without the column validate_dataframe sets None (line 93)
ThresholdColumn(hasColumn, cells) ==
    [k \in 1..Len(cells) |->
        IF ~hasColumn THEN None
        ELSE IF \A m \in 1..Len(cells) : cells[m] # <<>> THEN IntV(int(cells[k]))
        ELSE IF cells[k] = <<>> THEN FloatNaN
        ELSE FloatV(int(cells[k]), 0)]

\* pd.isna(v)
isna(v) == v = None \/ v = FloatNaN

\* str(v), as an f-string formats it, for the values of a threshold column
PyStr(v) ==
    IF v = None THEN <<"N", "o", "n", "e">>
    ELSE IF v = FloatNaN THEN <<"n", "a", "n">>
    ELSE IF v[1] = "int" THEN str(v[2])
    ELSE str(v[2]) \o <<".", "0">>

\* plot_version_data lines 169-173 and 189, 208, 212: the legend label of a
\* version, before ' (data)' or ' (max)'
plot_version_data_label(version, threshold) ==
    LET label_suffix == IF ~isna(threshold) /\ version # Master
                        THEN <<" ", "(", "t", "=">> \o str(threshold[2]) \o <<")">>
                        ELSE <<>>
    IN  version \o label_suffix

\* format_version_stats, lines 318-338: the parts of the markdown line
\* '- **{version_label}**: {max} TPS {change_str} `{raw_str}`'
format_version_stats(version, threshold, max_tps, raw_values, master_max) ==
    LET version_label == IF threshold # None /\ version # Master
                         THEN version \o <<" ", "(", "t", "=">> \o PyStr(threshold) \o <<")">>
                         ELSE version
        change_pct == PercentChange(master_max, max_tps)
        change_str == IF version = Master
                      THEN <<"(", "b", "a", "s", "e", "l", "i", "n", "e", ")">>
                      ELSE IF Positive(change_pct)
                      THEN <<"(", "+">> \o FormatF1(change_pct, FALSE) \o <<"%", ")">>
                      ELSE <<"(">> \o FormatF1(change_pct, FALSE) \o <<"%", ")">>
        raw_str == <<"{">>
                   \o join([k \in 1..Len(raw_values) |->
                               (IF k = 1 THEN <<>> ELSE <<" ">>) \o str(raw_values[k])], ",")
                   \o <<"}">>
    IN  [version_label |-> version_label, max_tps |-> str(max_tps),
         change_str |-> change_str, raw_str |-> raw_str]

---------------------------------------------------------------------------
(* plot_candlestick.py: filter_data_points *)

\* lines 34-49: the rows kept, as positions in tbl; a comparison with an
\* empty cell (NaN) is False
filter_data_points(tbl, range_type) ==
    LET rows == [k \in 1..Len(tbl) |-> k]
        c(k) == tbl[k].connections
    IN  IF range_type = "0-10"
        THEN SelectSeq(rows, LAMBDA k : c(k) # NaN /\ c(k) <= 10)
        ELSE IF range_type = "10-100"
        THEN SelectSeq(rows, LAMBDA k : c(k) # NaN /\ c(k) > 10 /\ c(k) <= 100 /\ c(k) % 10 = 0)
        ELSE IF range_type = "100-1000"
        THEN SelectSeq(rows, LAMBDA k : c(k) # NaN /\ c(k) >= 100 /\ c(k) <= 1000
                                        /\ c(k) % 100 = 0)
        ELSE rows

---------------------------------------------------------------------------
(* plot_pgbench.py: write_test_results *)

\* the elements of q once each, in order of first appearance: unique()
unique(q) ==
    LET first == SelectSeq([k \in 1..Len(q) |-> k],
                           LAMBDA k : \A m \in 1..(k - 1) : q[m] # q[k])
    IN  [n \in 1..Len(first) |-> q[first[n]]]

RECURSIVE Flatten(_)
Flatten(qs) == IF qs = <<>> THEN <<>> ELSE qs[1] \o Flatten(Tail(qs))

\* the order of the characters of the version names
CharRank(c) ==
    CASE c = "1" -> 1 [] c = "a" -> 2 [] c = "e" -> 3 [] c = "m" -> 4
      [] c = "r" -> 5 [] c = "s" -> 6 [] c = "t" -> 7 [] c = "v" -> 8

\* a < b for two strings
RECURSIVE StrLess(_, _)
StrLess(a, b) ==
    IF b = <<>> THEN FALSE
    ELSE IF a = <<>> THEN TRUE
    ELSE IF a[1] # b[1] THEN CharRank(a[1]) < CharRank(b[1])
    ELSE StrLess(Tail(a), Tail(b))

\* a < b for two keys (version, threshold): tuples compare by their first
\* differing element, and a comparison with NaN is False
KeyLess(a, b) ==
    IF a[1] # b[1] THEN StrLess(a[1], b[1])
    ELSE a[2] # b[2] /\ ~isna(a[2]) /\ ~isna(b[2]) /\ a[2][2] < b[2][2]

\* a < b for two elements of a list of numbers (of = "int") or of keys
PyLess(of, a, b) == IF of = "int" THEN a < b ELSE KeyLess(a, b)

\* sorted() of a list of numbers or of keys: a stable sort
RECURSIVE Sorted(_, _)
Sorted(q, of) ==
    IF q = <<>> THEN <<>>
    ELSE LET rest == Sorted(SubSeq(q, 1, Len(q) - 1), of)
             e == q[Len(q)]
             after == {k \in 1..Len(rest) : ~PyLess(of, e, rest[k])}
             at == IF after = {} THEN 0 ELSE CHOOSE k \in after : \A m \in after : m <= k
         IN  SubSeq(rest, 1, at) \o <<e>> \o SubSeq(rest, at + 1, Len(rest))

\* a slip: the rows of a version, whatever their threshold
GroupRows_AnyThreshold(x_data, key) == SelectSeq(x_data, LAMBDA r : r.version = key[1])

\* lines 370-379: the rows of x_data of a version and threshold
GroupRows(x_data, key) ==
    SelectSeq(x_data, LAMBDA r : /\ r.version = key[1]
                                 /\ IF isna(key[2]) THEN isna(r.threshold)
                                    ELSE r.threshold = key[2])

\* lines 363-386: the keys of version_stats in the order they are inserted
StatsKeys(x_data) ==
    LET vs == unique([k \in 1..Len(x_data) |-> x_data[k].version])
        thresholds(v) == LET rows == SelectSeq(x_data, LAMBDA r : r.version = v)
                         IN  unique([k \in 1..Len(rows) |-> rows[k].threshold])
    IN  Flatten([n \in 1..Len(vs) |->
                    [m \in 1..Len(thresholds(vs[n])) |-> <<vs[n], thresholds(vs[n])[m]>>]])

\* lines 380-386: max_tps and the sorted raw_values of a key
VersionStats(x_data, key) ==
    LET tps_values == Sorted([k \in 1..Len(GroupRows(x_data, key)) |->
                                 GroupRows(x_data, key)[k].tps], "int")
    IN  [max_tps |-> tps_values[Len(tps_values)], raw_values |-> tps_values]

\* lines 354-405 for one x value: the lines written, each as
\* <<kind, x, ...>>; a version line holds its key and the parts that
\* format_version_stats gives
XValueLines(test_data, x_val) ==
    LET x_data == SelectSeq(test_data, LAMBDA r : r.x = x_val)
        keys == StatsKeys(x_data)
        master_keys == SelectSeq(keys, LAMBDA key : key[1] = Master)
        master_max == VersionStats(x_data, master_keys[1]).max_tps
        line(key) ==
            LET stats == VersionStats(x_data, key)
                text == format_version_stats(key[1], key[2], stats.max_tps,
                                             stats.raw_values, master_max)
            IN  <<"version", x_val, key[1], key[2], text.version_label, text.max_tps,
                  text.change_str, text.raw_str>>
    IN  IF master_keys = <<>>
        THEN <<<<"header", x_val>>, <<"no master", x_val>>>>
        ELSE <<<<"header", x_val>>>>
             \o [k \in 1..Len(keys) |-> line(Sorted(keys, "key")[k])]
             \o <<<<"blank", x_val>>>>

\* lines 340-405: the title (of the SQL file when get_sql_info finds it),
\* then the lines of each x value in increasing order
write_test_results(test_data, sql_found) ==
    LET x_values == Sorted(unique([k \in 1..Len(test_data) |-> test_data[k].x]), "int")
    IN  <<<<"title", sql_found>>>>
        \o Flatten([k \in 1..Len(x_values) |-> XValueLines(test_data, x_values[k])])

---------------------------------------------------------------------------
(* Calls of the reporting functions, each on inputs of its callers' kinds *)

MaxCells == 2
MaxSeries == 2
MaxFilterRows == 2

Return(v) == [returned |-> TRUE, value |-> v]
\* the same for a function whose result is a record: its fields beside `returned`
ReturnFields(r) == [returned |-> TRUE] @@ r

\* maximum TPS values, and baselines (a baseline of 0 or below included)
TPS == {0, 1, 3, 7, 100, 120}
Baselines == TPS \cup {0 - 50}

\* avg_ms columns, in thousandths of a millisecond
AvgSeries == UNION {[1..n -> {0, 10, 15, 1234}] : n \in 1..MaxSeries}

VersionNames == {Master, <<"v", "1">>}

\* the texts of a threshold column: an empty cell or '3'
ThresholdCells == UNION {[1..n -> {<<>>, <<"3">>}] : n \in 1..MaxCells}

FilterTables ==
    UNION {[1..n -> {Row("A", c, 10) : c \in {NaN, 5, 10, 15, 20, 100, 150, 1000, 1100}}]
           : n \in 1..MaxFilterRows}

RangeTypes == {"0-10", "10-100", "100-1000", "all"}

MaxResultRows == 3

\* the rows of one test in the combined CSV: version, threshold cell (empty
\* for master, which is run without a threshold), the x column (clients or
\* jobs) and tps
ResultRows ==
    {r \in [version : VersionNames, cell : {<<>>, <<"3">>}, x : {1, 2}, tps : {100, 120}] :
        r.version = Master => r.cell = <<>>}
ResultTables == UNION {[1..n -> ResultRows] : n \in 1..MaxResultRows}

InitCalls ==
    /\ script = "calls" /\ pc = "call" /\ exit_status = -1
    /\ stdout = <<>>
    /\ ParseIdle
    /\ MainIdle
    /\ AnalysisIdle
    /\ CallIdle
    /\ RerunIdle

CallFormatPercentageChange ==
    /\ script = "calls" /\ pc = "call"
    /\ \E baseline_tps \in Baselines, current_tps \in TPS :
        /\ args' = <<"format_percentage_change", baseline_tps, current_tps>>
        /\ ret' = Return(format_percentage_change(baseline_tps, current_tps))
    /\ pc' = "done"
    /\ UNCHANGED <<script, exit_status, parseVars, mainVars, analysisVars, rerunVars, stdout>>

\* write_test_results lines 363-386 and 404: the key (version, threshold) comes
\* from the threshold column's unique values, max_tps is the group's maximum
CallFormatVersionStats ==
    /\ script = "calls" /\ pc = "call"
    /\ \E version \in VersionNames, hasColumn \in BOOLEAN, cells \in ThresholdCells,
          max_tps \in TPS, master_max \in Baselines, more \in BOOLEAN :
        \E k \in 1..Len(cells) :
            LET threshold == ThresholdColumn(hasColumn, cells)[k]
                raw_values == IF more THEN <<0, max_tps>> ELSE <<max_tps>>
            IN  /\ args' = <<"format_version_stats", version, hasColumn, cells[k],
                             threshold, max_tps, master_max>>
                /\ ret' = ReturnFields(format_version_stats(version, threshold, max_tps,
                                                              raw_values, master_max))
    /\ pc' = "done"
    /\ UNCHANGED <<script, exit_status, parseVars, mainVars, analysisVars, rerunVars, stdout>>

\* plot_version_data's label for a key of the same kind (create_plot)
CallPlotVersionData ==
    /\ script = "calls" /\ pc = "call"
    /\ \E version \in VersionNames, hasColumn \in BOOLEAN, cells \in ThresholdCells :
        \E k \in 1..Len(cells) :
            LET threshold == ThresholdColumn(hasColumn, cells)[k]
            IN  /\ args' = <<"plot_version_data", version, hasColumn, cells[k], threshold>>
                /\ ret' = Return(plot_version_data_label(version, threshold))
    /\ pc' = "done"
    /\ UNCHANGED <<script, exit_status, parseVars, mainVars, analysisVars, rerunVars, stdout>>

CallPctIncrease ==
    /\ script = "calls" /\ pc = "call"
    /\ \E avg_ms \in AvgSeries :
        /\ args' = <<"pct_increase", avg_ms>>
        /\ ret' = ReturnFields(pct_increase(avg_ms))
    /\ pc' = "done"
    /\ UNCHANGED <<script, exit_status, parseVars, mainVars, analysisVars, rerunVars, stdout>>

CallFilterDataPoints ==
    /\ script = "calls" /\ pc = "call"
    /\ \E tbl \in FilterTables, range_type \in RangeTypes :
        /\ args' = <<"filter_data_points", tbl, range_type>>
        /\ ret' = Return(filter_data_points(tbl, range_type))
    /\ pc' = "done"
    /\ UNCHANGED <<script, exit_status, parseVars, mainVars, analysisVars, rerunVars, stdout>>

\* print_ascii_results line 432: the rows of a test, as pd.read_csv loaded
\* them, are written
CallWriteTestResults ==
    /\ script = "calls" /\ pc = "call"
    /\ \E tbl \in ResultTables, sql_found \in BOOLEAN :
        LET threshold == ThresholdColumn(TRUE, [k \in 1..Len(tbl) |-> tbl[k].cell])
            test_data == [k \in 1..Len(tbl) |->
                             [version |-> tbl[k].version, threshold |-> threshold[k],
                              x |-> tbl[k].x, tps |-> tbl[k].tps]]
        IN  /\ args' = <<"write_test_results", tbl, sql_found>>
            /\ ret' = Return(write_test_results(test_data, sql_found))
    /\ pc' = "done"
    /\ UNCHANGED <<script, exit_status, parseVars, mainVars, analysisVars, rerunVars, stdout>>

NextCalls ==
    \/ CallWriteTestResults
    \/ CallFormatPercentageChange
    \/ CallFormatVersionStats
    \/ CallPlotVersionData
    \/ CallPctIncrease
    \/ CallFilterDataPoints

SpecCalls == InitCalls /\ [][NextCalls]_vars

\* the call just made is of fn
Called(fn) == ret.returned /\ args[1] = fn

---------------------------------------------------------------------------
(* plot_pgbench.py: loading the combined CSV *)

MaxRuns == 2
MaxCsvRows == 1

EXPECTED_COLUMNS ==
    <<"test_type", "clients", "jobs", "threshold", "version", "run_number",
      "scaling_factor", "num_clients", "num_threads", "duration",
      "transactions_processed", "failed_transactions", "latency_avg",
      "initial_connection_time", "tps", "transaction_type">>

\* every sequence that lists the elements of S once: the orders in which a
\* Python set of strings can iterate; the order follows the strings' hashes,
\* which are salted anew for each process
Orderings(S) ==
    {q \in [1..Cardinality(S) -> S] : \A a, b \in 1..Cardinality(S) : a # b => q[a] # q[b]}

\* line 87
missing_columns(columns) ==
    {EXPECTED_COLUMNS[k] : k \in 1..Len(EXPECTED_COLUMNS)} \ ({"threshold"} \cup Range(columns))

\* pd.api.types.is_numeric_dtype of a column read by pd.read_csv: the column
\* is int64 or float64 when each cell is a number or empty, object otherwise
is_numeric_dtype(rows, col) ==
    \A k \in 1..Len(rows) : rows[k][col][1] \in {"int", "float"} \/ rows[k][col] = EmptyCell

\* a slip: the data types are not validated
validate_dataframe_NoTypeCheck(columns, rows, order) ==
    IF missing_columns(columns) # {}
    THEN [raised |-> TRUE, error |-> <<"Missing expected columns", order>>]
    ELSE [raised |-> FALSE,
          columns |-> IF InSeq(columns, "threshold") THEN columns
                      ELSE Append(columns, "threshold")]

\* lines 83-99 on the table of a CSV; `order` is the iteration order of the
\* set missing_columns.  Raises ValueError with a message, or returns with
\* the threshold column added when it was missing
validate_dataframe(columns, rows, order) ==
    LET numeric_columns == <<"clients", "jobs", "tps">>
        bad == SelectSeq(numeric_columns, LAMBDA col : ~is_numeric_dtype(rows, col))
    IN  IF missing_columns(columns) # {}
        THEN [raised |-> TRUE, error |-> <<"Missing expected columns", order>>]
        ELSE IF bad # <<>>
        THEN [raised |-> TRUE, error |-> <<"should be numeric", bad[1]>>]
        ELSE [raised |-> FALSE,
              columns |-> IF InSeq(columns, "threshold") THEN columns
                          ELSE Append(columns, "threshold")]

\* the text of a CSV cell
CellText(cell) == IF cell[1] = "int" THEN str(cell[2]) ELSE cell[2]

\* lines 101-116: what is printed, and the table (its columns and its
\* threshold column) or None
load_combined_data(csv, order) ==
    IF ~csv.written
    THEN [out |-> <<<<"Combined CSV file not found!", "">>,
                    <<"Please run parse_pgbench_csv.py first to generate the data.", "">>>>,
          loaded |-> FALSE, columns |-> <<>>, threshold |-> <<>>]
    ELSE LET v == validate_dataframe(csv.fieldnames, csv.rows, order)
             hasColumn == InSeq(csv.fieldnames, "threshold")
             cells == [k \in 1..Len(csv.rows) |->
                          IF hasColumn THEN CellText(csv.rows[k]["threshold"]) ELSE <<>>]
         IN  IF v.raised
             THEN [out |-> <<<<"Error validating CSV data", v.error>>>>,
                   loaded |-> FALSE, columns |-> <<>>, threshold |-> <<>>]
             ELSE [out |-> <<>>, loaded |-> TRUE, columns |-> v.columns,
                   threshold |-> ThresholdColumn(hasColumn, cells)]

FIXED_CONNECTIONS_COUNT == 1000

\* lines 118-123: the positions of the rows kept; clients and jobs hold
\* integers or are empty, and an empty cell equals nothing
filter_data_by_plot_type(rows, plot_type) ==
    SelectSeq([k \in 1..Len(rows) |-> k],
              LAMBDA k : /\ rows[k]["clients"][1] = "int"
                         /\ IF plot_type = "connections_equal_jobs"
                            THEN rows[k]["jobs"][1] = "int"
                                 /\ rows[k]["clients"][2] = rows[k]["jobs"][2]
                            ELSE rows[k]["clients"][2] = FIXED_CONNECTIONS_COUNT)

\* PLOT_CONFIGS, lines 49-60: the plot types and their file names
PlotTypes == <<"connections_equal_jobs", "fixed_connections">>
PlotFile(plot_type) ==
    IF plot_type = "connections_equal_jobs"
    THEN "performance_overview_connections_equal_jobs-v4.png"
    ELSE "performance_overview_fixed_connections-v4.png"
PERFORMANCE_MARKDOWN_FILE == "performance_overview-v4.md"

\* plot_performance_overview, lines 221-303: what it prints; the figure is
\* saved unless no row is left for the plot type
OverviewMessages(rows, plot_type) ==
    IF filter_data_by_plot_type(rows, plot_type) = <<>>
    THEN <<<<"Creating performance overview", plot_type>>,
           <<"No data found for plot type", plot_type>>>>
    ELSE <<<<"Creating performance overview", plot_type>>,
           <<"Saved plot", PlotFile(plot_type)>>>>

\* a row of a combined CSV with the given clients, and with `cell` in the
\* column `odd` when that is one of its columns
PgbenchRow(clients, odd, cell) ==
    [k \in Range(SortedKeys) |->
        IF k = odd THEN cell
        ELSE IF k = "clients" THEN clients
        ELSE IF k = "tps" THEN FloatV(15, 1)
        ELSE IF k \in {"test_type", "version", "transaction_type"} THEN StrV(<<"x">>)
        ELSE IF k = "threshold" THEN EmptyCell
        ELSE IntV(1)]

\* combined CSV files as anyone may have written them: some columns absent,
\* a clients, jobs or tps cell that is empty or text
PgbenchCsvs ==
    {[written |-> FALSE]} \cup
    {[written |-> TRUE,
      fieldnames |-> Restrict(SortedKeys, Range(SortedKeys) \ absent),
      rows |-> [k \in 1..n |->
                   [c \in Range(SortedKeys) \ absent |-> PgbenchRow(clients, odd, cell)[c]]]] :
        absent \in SUBSET {"threshold", "tps", "transaction_type", "version"},
        clients \in {IntV(1), IntV(FIXED_CONNECTIONS_COUNT)},
        odd \in {"none", "clients", "jobs", "tps"},
        cell \in {EmptyCell, StrV(<<"x">>)},
        n \in 1..MaxCsvRows}

InitPgbench ==
    /\ script = "plot_pgbench" /\ pc = "start" /\ exit_status = -1
    /\ stdout = <<>>
    /\ ParseIdle
    /\ AnalysisIdle
    /\ CallIdle
    /\ RerunIdle
    /\ dirExists = FALSE /\ txt_files = <<>> /\ i = 0 /\ all_data = <<>> /\ csv_files = <<>>
    /\ combined \in PgbenchCsvs

\* plot_pgbench is started once parse_pgbench_csv has ended
PgbenchStart ==
    /\ script = "parse_pgbench_csv" /\ pc = "done"
    /\ script' = "plot_pgbench" /\ pc' = "start" /\ exit_status' = -1
    /\ stdout' = <<>>
    /\ UNCHANGED <<callVars, rerunVars, parseVars, mainVars, analysisVars>>

\* main, lines 437-440
PgbenchLoad ==
    /\ script = "plot_pgbench" /\ pc = "start"
    /\ \E order \in Orderings(IF combined.written THEN missing_columns(combined.fieldnames)
                              ELSE {}) :
        LET loaded == load_combined_data(combined, order) IN
        /\ args' = <<"load_combined_data">>
        /\ ret' = Return(IF loaded.loaded THEN <<"df", loaded.columns, loaded.threshold>>
                         ELSE None)
        /\ stdout' = stdout \o loaded.out
        /\ IF loaded.loaded
           THEN pc' = "loaded" /\ exit_status' = exit_status
           ELSE pc' = "done" /\ exit_status' = 0
    /\ UNCHANGED <<script, rerunVars, parseVars, mainVars, analysisVars>>

\* main, lines 442-458: the two overview plots (each saved unless its plot
\* type has no row) and the markdown summary, which print_ascii_results
\* opens for writing in every case
PgbenchReport ==
    /\ script = "plot_pgbench" /\ pc = "loaded"
    /\ stdout' = stdout \o
           <<<<"Loaded data with shape", <<Len(combined.rows), Len(ret.value[2])>>>>,
             <<"Columns in data", ret.value[2]>>>>
           \o OverviewMessages(combined.rows, PlotTypes[1])
           \o OverviewMessages(combined.rows, PlotTypes[2])
           \o <<<<"Both overview plots created successfully!", "">>,
                <<"Markdown results summary saved", PERFORMANCE_MARKDOWN_FILE>>>>
    /\ artifacts' = artifacts \cup {PERFORMANCE_MARKDOWN_FILE}
                     \cup {PlotFile(PlotTypes[k]) : k \in
                              {m \in 1..Len(PlotTypes) :
                                  filter_data_by_plot_type(combined.rows, PlotTypes[m]) # <<>>}}
    /\ pc' = "done" /\ exit_status' = 0
    /\ UNCHANGED <<script, callVars, run, prev, parseVars, mainVars, analysisVars>>

\* the script is run again, on the same combined CSV
PgbenchRerun ==
    /\ script = "plot_pgbench" /\ pc = "done" /\ run < MaxRuns
    /\ run' = run + 1 /\ prev' = stdout
    /\ pc' = "start" /\ exit_status' = -1 /\ stdout' = <<>>
    /\ args' = <<>> /\ ret' = NotReturned
    /\ UNCHANGED <<script, artifacts, parseVars, mainVars, analysisVars>>

NextPgbench ==
    \/ PgbenchLoad
    \/ PgbenchReport
    \/ PgbenchRerun

SpecPgbench == InitPgbench /\ [][NextPgbench]_vars

\* parse_pgbench_csv, then plot_pgbench on the combined CSV it wrote
NextPipeline ==
    \/ MainCheckDir
    \/ MainGlob
    \/ MainParse
    \/ MainCheckData
    \/ MainWriteCsv
    \/ MainWriteCombined
    \/ PgbenchStart
    \/ PgbenchLoad
    \/ PgbenchReport

SpecPipeline == InitMain /\ [][NextPipeline]_vars

---------------------------------------------------------------------------
(* Claims about parse_pgbench_file *)

Returned == script = "parse_pgbench_file" /\ pc = "returned"

\* the structured fields of a returned record are the encoded values
RecoversEncoding(p, e) ==
    /\ p.ok
    /\ p.data.clients = IntV(e.clients)
    /\ p.data.jobs = IntV(e.jobs)
    /\ p.data.threshold = e.threshold
    /\ p.data.version = StrV(e.version)
    /\ p.data.run_number = IntV(e.run_number)

\* the encoding reads back one way only: the type holds no 'c' segment
\* followed by a digit segment, and a version written without a threshold
\* does not start with a 't' segment followed by a digit segment (its own
\* second segment, or the run number when the version is 't' alone)
Unambiguous(e) ==
    LET ts == split(e.type, "-")
        vs == split(e.version, "-")
    IN  /\ \A k \in 1..(Len(ts) - 1) : ~(ts[k] = <<"c">> /\ isdigit(ts[k + 1]))
        /\ e.threshold = None =>
               ~(vs[1] = <<"t">> /\ (Len(vs) = 1 \/ isdigit(vs[2])))

MatchesGrammar(parts) ==
    \E m \in 2..Len(parts) :
        /\ m + 5 <= Len(parts)
        /\ parts[m] = <<"c">> /\ isdigit(parts[m + 1])
        /\ parts[m + 2] = <<"j">> /\ isdigit(parts[m + 3])
        /\ isdigit(parts[Len(parts)])

ContentParses(content) ==
    \A k \in 1..Len(MetricKeys) : ~MetricValue(MetricKeys[k], content).raised

\* C2: a readable file whose name is not of the grammar yields a record with
\* test_type the whole name, version "unknown" and null clients, jobs,
\* threshold and run_number.
C2_MismatchFallsBack ==
    (Returned /\ file.readable /\ ContentParses(file.content)
        /\ ~MatchesGrammar(split(file.stem, "-")))
    => /\ parsed.ok
       /\ \A k \in DOMAIN FallbackFields(file.stem) :
              parsed.data[k] = FallbackFields(file.stem)[k]

HasLine(content, key) == \E k \in 1..Len(content) : content[k].label = key

InsertAt(content, pos, line) ==
    SubSeq(content, 1, pos) \o <<line>> \o SubSeq(content, pos + 1, Len(content))

\* the records agree on every field but `key`
SameButFor(p, q, key) ==
    /\ DOMAIN p.data = DOMAIN q.data
    /\ \A f \in DOMAIN p.data \ {key} : p.data[f] = q.data[f]

\* C3: when a metric's line is absent from the content, the record holds
\* null for that metric, and it agrees on every other field with the record
\* of the same file with a line for that metric put in anywhere.
C3_AbsentMetricIsNull ==
    (Returned /\ parsed.ok) =>
        \A n \in 1..Len(MetricKeys) :
            LET key == MetricKeys[n] IN
            ~HasLine(file.content, key) =>
                /\ parsed.data[key] = None
                /\ \A line \in {l \in AllLines : l.label = key}, pos \in 0..Len(file.content) :
                       LET with == parse_pgbench_file(
                                       File(file.stem, InsertAt(file.content, pos, line), TRUE))
                       IN  with.ok => SameButFor(parsed, with, key)

C3_Witness ==
    /\ Returned /\ parsed.ok
    /\ HasLine(file.content, "tps") /\ ~HasLine(file.content, "duration")
    /\ HasLine(file.content, "transaction_type")
    /\ parsed.data.tps # None
    /\ parsed.data.duration = None

---------------------------------------------------------------------------
(* Claims about parse_pgbench_csv.main *)

MainDone == script = "parse_pgbench_csv" /\ pc = "done"

Parses(f) == parse_pgbench_file(f).ok

\* the records of the files of fs that yield one, in order
RecordsOf(fs) ==
    LET good == SelectSeq(fs, Parses)
    IN  [k \in 1..Len(good) |-> parse_pgbench_file(good[k]).data]

AllKeys == {KeyOrder[k] : k \in 1..Len(KeyOrder)}

\* C4: a file that fails to parse yields no record at all, and main goes on:
\* once the first loop is over the records collected are those of the other
\* files, each complete, as in a run on the directory without the failing
\* files.
C4_FailingFileIsSkipped ==
    (script = "parse_pgbench_csv" /\ pc \in {"write", "done"} /\ dirExists) =>
        /\ all_data = RecordsOf(txt_files)
        /\ all_data = RecordsOf(SelectSeq(txt_files, Parses))
        /\ \A k \in 1..Len(all_data) :
               AllKeys \ {"transaction_type"} \subseteq DOMAIN all_data[k]

C4_Witness ==
    /\ MainDone /\ Len(txt_files) = 3
    /\ ~Parses(txt_files[1]) /\ Parses(txt_files[2])
    /\ ~txt_files[1].readable
    /\ Parses(txt_files[3])
    /\ Len(all_data) = 2
    /\ combined.written

\* C5 as stated: the combined table of a directory of N .txt files has N
\* rows and the union of the records' field names as its columns.
C5_OneRowPerFile ==
    (MainDone /\ dirExists /\ txt_files # <<>>) =>
        /\ combined.written
        /\ Len(combined.rows) = Len(txt_files)

\* C5 amended: the combined table has one row per file that yielded a
\* record, in processing order, and the union of those records' field names
\* as its columns; it is written only when some file yielded a record.
C5_OneRowPerRecord ==
    (MainDone /\ dirExists) =>
        LET records == RecordsOf(txt_files) IN
        IF records = <<>> THEN ~combined.written
        ELSE /\ combined.written
             /\ Len(combined.rows) = Len(records)
             /\ {combined.fieldnames[k] : k \in 1..Len(combined.fieldnames)}
                    = UNION {DOMAIN records[k] : k \in 1..Len(records)}
             /\ \A k \in 1..Len(records) :
                    /\ DOMAIN combined.rows[k]
                           = UNION {DOMAIN records[n] : n \in 1..Len(records)}
                    /\ \A f \in DOMAIN records[k] :
                           combined.rows[k][f] = CsvRow(<<f>>, records[k])[f]

C5_Witness ==
    /\ MainDone /\ combined.written
    /\ Len(txt_files) = 3 /\ Len(combined.rows) = 3
    /\ "transaction_type" \notin DOMAIN all_data[1]
    /\ "transaction_type" \in DOMAIN all_data[2]
    /\ InSeq(combined.fieldnames, "transaction_type")

\* the record of a file whose name held the clients marker
Structured == Returned /\ parsed.ok /\ parsed.data.clients # None

\* the characters of the first n segments of a stem, separators included
RECURSIVE CharsOf(_, _)
CharsOf(parts, n) == IF n = 0 THEN 0 ELSE CharsOf(parts, n - 1) + Len(parts[n]) + 1

Underscored(s) == [k \in 1..Len(s) |-> IF s[k] = "-" THEN "_" ELSE s[k]]

\* C15: with the clients marker at segment i, test_type is the stem before
\* the marker with each '-' turned into '_', and version is the stem from
\* after the jobs (or threshold) part up to the last segment, hyphens kept.
C15_TypeUnderscoredVersionHyphened ==
    Structured =>
        LET stem == file.stem
            parts == split(stem, "-")
            c == FindCIndex(parts)
            from == IF parsed.data.threshold = None THEN c + 4 ELSE c + 6
        IN  /\ parsed.data.test_type = StrV(Underscored(SubSeq(stem, 1, CharsOf(parts, c - 1) - 1)))
            /\ parsed.data.version =
                  StrV(SubSeq(stem, CharsOf(parts, from - 1) + 1,
                              Len(stem) - Len(parts[Len(parts)]) - 1))

\* 'listen-notify-unique' became 'listen_notify_unique' and the version kept
\* its hyphens, 'v-7-x'
C15_Witness ==
    /\ Structured
    /\ file.stem = WordsThresholdStem
    /\ parsed.data.test_type =
          StrV(<<"l", "i", "s", "t", "e", "n", "_", "n", "o", "t", "i", "f", "y", "_",
                 "u", "n", "i", "q", "u", "e">>)
    /\ parsed.data.version = StrV(<<"v", "-", "7", "-", "x">>)

---------------------------------------------------------------------------
(* Claims about the analysis scripts *)

\* the rows of a group up to and including the first row that holds the
\* group's greatest connections value
UpToPeak(tbl, labels) ==
    LET peak == IdxMax(tbl, labels)
        pos == CHOOSE p \in 1..Len(labels) : labels[p] = peak
    IN  SubSeq(labels, 1, pos)

\* the rows of the group an increasing phase was taken from
GroupOf(ph) == IF ph.fn = "plot_stats" THEN AllRows(df) ELSE VersionRows(df, ph.version)

\* C6: every increasing phase taken by plot_candlestick_comparison,
\* plot_version_pair or plot_stats is the group's rows, in table order, up to
\* and including the peak row, and holds no row after it.
C6_IncreasingPhaseStopsAtPeak ==
    \A k \in 1..Len(phases) : phases[k].rows = UpToPeak(df, GroupOf(phases[k]))

Classified(r, o1) ==
    IF o1
    THEN r.complexity = "O(1)" /\ r.formula = [kind |-> "constant", mean |-> r.mean_latency]
    ELSE r.complexity = "O(N)" /\ r.formula = [kind |-> "linear", intercept |-> r.intercept,
                                               slope_us |-> r.slope_us]

Notice(version) == Printed("Insufficient data for", version)

C9_NoFatalError == csvExists => pc # "crashed"

InRange(tbl, labels) ==
    SelectSeq(labels, LAMBDA k : /\ tbl[k].connections # NaN
                                 /\ tbl[k].connections >= 100
                                 /\ tbl[k].connections <= 1000)

FedToRegression(g) == g.fn \in {"plot_candlestick_comparison", "plot_version_pair"}

\* C11: in plot_candlestick_comparison and plot_version_pair the rows fed to
\* the regression of a version are the rows of its increasing phase (the
\* version's rows up to and including its peak) with connections in
\* [100, 1000], no more and no fewer.
C11_RegressionRowsOfIncreasingPhase ==
    \A k \in 1..Len(regressions) :
        FedToRegression(regressions[k]) =>
            regressions[k].rows =
                InRange(df, UpToPeak(df, VersionRows(df, regressions[k].version)))

\* the colour each logged call returned is the one of the version's first call
FirstColorKept ==
    \A k, m \in 1..Len(color_log) :
        color_log[k].version = color_log[m].version => color_log[k].color = color_log[m].color

\* no step changes or removes an assignment of VERSION_COLORS
AssignmentsKept ==
    \A v \in DOMAIN VERSION_COLORS :
        v \in DOMAIN VERSION_COLORS' /\ VERSION_COLORS'[v] = VERSION_COLORS[v]

\* C16: the colour get_color_from_version returns for a version is the one
\* of the version's first call, in the all-versions plot and in every pair
\* plot, and no call changes or removes an assignment of VERSION_COLORS.
C16_ColourOfFirstCallKept == [](FirstColorKept) /\ [][AssignmentsKept]_vars

\* a pair plot asked again for a version that was not the first one coloured
C16_Witness ==
    \E k, m \in 1..Len(color_log) :
        /\ color_log[k].fn = "plot_candlestick_comparison"
        /\ color_log[m].fn = "plot_version_pair"
        /\ color_log[k].version = color_log[m].version
        /\ color_log[k].color = color_log[m].color
        /\ color_log[k].color # Tab10[1]

\* C17: two different versions seen during a run get different colours.
C17_DistinctColours ==
    \A v, w \in DOMAIN VERSION_COLORS : v # w => VERSION_COLORS[v] # VERSION_COLORS[w]

\* C10: a run whose input is missing or empty ends with a non-zero exit
\* status.
C10_MissingInputExitsNonZero ==
    (MainDone /\ (~dirExists \/ txt_files = <<>>)) => exit_status # 0

---------------------------------------------------------------------------
(* Claims about the reporting functions *)

\* the signed tenths of a text such as '+20.0', '-5.0' or '0.0'
SignedTenths(text) ==
    LET body == IF text[1] \in {"+", "-"} THEN Tail(text) ELSE text
        parts == split(body, ".")
        t == DecimalValue(parts[1]) * 10 + DigitVal(parts[2][1])
    IN  IF text[1] = "-" THEN 0 - t ELSE t

\* text is an optional sign, digits, a point and one digit
IsOneDecimal(text) ==
    LET body == IF text # <<>> /\ text[1] \in {"+", "-"} THEN Tail(text) ELSE text IN
    /\ Len(body) >= 3
    /\ body[Len(body) - 1] = "."
    /\ isdigit(SubSeq(body, 1, Len(body) - 2))
    /\ body[Len(body)] \in Digits

\* tenths / 10 is (c - b) / b * 100 to one decimal
ReportsChange(tenths, b, c) == 2 * Abs(tenths * b - (c - b) * 1000) <= Abs(b)

\* C12: for every baseline b # 0 and current value c the change reported by
\* format_percentage_change (plot.py), format_version_stats (plot_pgbench) and
\* plot_stats is (c - b) / b * 100: the texts are that number to one decimal,
\* the plot_stats series holds it exactly; 100 and 120 give '+20.0%', and
\* c = b gives 0.
C12_ChangeIsRelativeToBaseline ==
    /\ Called("format_percentage_change") /\ args[2] # 0 =>
        LET text == ret.value
            number == SubSeq(text, 1, Len(text) - 1)
        IN  /\ text[Len(text)] = "%"
            /\ text[1] \in {"+", "-"}
            /\ IsOneDecimal(number)
            /\ ReportsChange(SignedTenths(number), args[2], args[3])
            /\ (text[1] = "-" => args[3] - args[2] # 0 /\ Sgn(args[3] - args[2]) # Sgn(args[2]))
            /\ args[2] = 100 /\ args[3] = 120 => text = <<"+", "2", "0", ".", "0", "%">>
            /\ args[3] = args[2] => text = <<"+", "0", ".", "0", "%">>
    /\ Called("format_version_stats") /\ args[2] # Master /\ args[7] # 0 =>
        LET text == ret.change_str
            number == SubSeq(text, 2, Len(text) - 2)
        IN  /\ text[1] = "(" /\ SubSeq(text, Len(text) - 1, Len(text)) = <<"%", ")">>
            /\ IsOneDecimal(number)
            /\ ReportsChange(SignedTenths(number), args[7], args[6])
            /\ args[7] = 100 /\ args[6] = 120 => text = <<"(", "+", "2", "0", ".", "0", "%", ")">>
            /\ args[6] = args[7] => SignedTenths(number) = 0
    /\ Called("pct_increase") /\ args[2][1] # 0 =>
        \A k \in 1..Len(args[2]) :
            LET q == ret.series[k] IN
            /\ q[2] > 0
            /\ q[1] * args[2][1] = (args[2][k] - args[2][1]) * 100 * q[2]

C12_Witness ==
    /\ Called("format_percentage_change") /\ args[2] = 100 /\ args[3] = 120
    /\ ret.value = <<"+", "2", "0", ".", "0", "%">>

\* the number of characters ch in text
Count(text, ch) == Cardinality({k \in 1..Len(text) : text[k] = ch})

\* C13: a reported percentage change is accompanied by its propagated error:
\* the text holds a second number besides the change.
C13_ChangeCarriesPropagatedError ==
    /\ Called("format_percentage_change") /\ args[2] # 0 => Count(ret.value, ".") >= 2
    /\ Called("format_version_stats") /\ args[2] # Master /\ args[7] # 0 =>
        Count(ret.change_str, ".") >= 2
    /\ Called("pct_increase") /\ args[2][1] # 0 => Count(ret.text, ".") >= 2

\* the positions of the rows of tbl whose connections value is among wanted
RowsAmong(tbl, wanted) ==
    SelectSeq([k \in 1..Len(tbl) |-> k], LAMBDA k : tbl[k].connections \in wanted)

\* C18: filter_data_points keeps, for '10-100', exactly the rows with
\* connections 10, 20, ..., 100; for '0-10' those with connections <= 10; for
\* '100-1000' those with connections 100, 200, ..., 1000; for any other
\* range_type every row.
C18_FilterKeepsRowsOfRange ==
    Called("filter_data_points") =>
        LET tbl == args[2]
            range_type == args[3]
        IN  ret.value = IF range_type = "10-100" THEN RowsAmong(tbl, {10 * k : k \in 1..10})
                        ELSE IF range_type = "0-10" THEN RowsAmong(tbl, 0..10)
                        ELSE IF range_type = "100-1000"
                        THEN RowsAmong(tbl, {100 * k : k \in 1..10})
                        ELSE [k \in 1..Len(tbl) |-> k]

\* C20: in plot_pgbench a version whose threshold cell is empty is labelled
\* with its bare name in the legend and in the markdown summary, and a label
\* with a '(t=...)' suffix is of a non-master version with a threshold value.
C20_NoThresholdNoSuffix ==
    \A fn \in {"plot_version_data", "format_version_stats"} :
        Called(fn) =>
            LET version == args[2]
                empty == ~args[3] \/ args[4] = <<>>
                label == IF fn = "plot_version_data" THEN ret.value
                         ELSE ret.version_label
            IN  /\ empty => label = version
                /\ label # version => version # Master /\ ~empty

---------------------------------------------------------------------------
(* Claims about plot_pgbench's loading of the combined CSV *)

\* C19: a combined CSV written by parse_pgbench_csv's main is accepted by
\* plot_pgbench: its header has every column of EXPECTED_COLUMNS other than
\* threshold, validate_dataframe raises nothing and load_combined_data returns
\* the table.
C19_CombinedCsvIsAccepted ==
    script = "plot_pgbench" /\ pc # "start" /\ combined.written =>
        /\ \A k \in 1..Len(EXPECTED_COLUMNS) :
               EXPECTED_COLUMNS[k] # "threshold" => InSeq(combined.fieldnames, EXPECTED_COLUMNS[k])
        /\ \A k \in 1..Len(stdout) : stdout[k][1] # "Error validating CSV data"
        /\ ret.value # None

\* C14: a second run of the script on the same files prints the same report
\* text as the first.
C14_RerunReproducesReport ==
    script = "plot_pgbench" /\ run > 1 /\ pc = "done" => stdout = prev

\* the CSV's table lacks a required column, or a clients, jobs or tps cell
\* of it is text
Rejectable(csv) ==
    LET required == Range(EXPECTED_COLUMNS) \ {"threshold"} IN
    \/ required \ Range(csv.fieldnames) # {}
    \/ \E col \in {"clients", "jobs", "tps"}, k \in 1..Len(csv.rows) :
           csv.rows[k][col][1] = "str" /\ csv.rows[k][col] # EmptyCell

\* C21: validate_dataframe accepts a table that lacks only the threshold
\* column and adds a threshold column that is null in every row; a table
\* that lacks another expected column, or whose clients, jobs or tps column
\* is not numeric, is rejected: load_combined_data returns None and main ends
\* with no plot and no markdown file written.
C21_ValidationGatesTheReport ==
    script = "plot_pgbench" /\ pc # "start" /\ combined.written =>
        IF Rejectable(combined)
        THEN /\ ret.value = None
             /\ pc = "done"
             /\ artifacts = {}
        ELSE /\ ret.value # None
             /\ InSeq(ret.value[2], "threshold")
             /\ Len(ret.value[3]) = Len(combined.rows)
             /\ ~InSeq(combined.fieldnames, "threshold") =>
                    /\ Range(ret.value[2]) = Range(combined.fieldnames) \cup {"threshold"}
                    /\ \A k \in 1..Len(ret.value[3]) : ret.value[3][k] = None
             /\ pc = "done" => PERFORMANCE_MARKDOWN_FILE \in artifacts

C21_Witness ==
    /\ script = "plot_pgbench" /\ pc = "done" /\ combined.written
    /\ Range(EXPECTED_COLUMNS) \ Range(combined.fieldnames) = {"threshold"}
    /\ ret.value # None
    /\ ret.value[3][1] = None
    /\ PlotFile("connections_equal_jobs") \in artifacts

---------------------------------------------------------------------------
(* Claims about write_test_results *)

Baseline == <<"(", "b", "a", "s", "e", "l", "i", "n", "e", ")">>

\* the greatest tps among the rows of tbl at x of the group g = (version, cell)
GroupMax(tbl, x, g) ==
    LET of == {tbl[k].tps : k \in {m \in 1..Len(tbl) :
                   tbl[m].x = x /\ tbl[m].version = g[1] /\ tbl[m].cell = g[2]}}
    IN  CHOOSE t \in of : \A u \in of : u <= t

\* C22: for every x value of a test: without a master group exactly the
\* line 'No master baseline found' is written and no version line; else one
\* line per (version, threshold) group, the master line marked '(baseline)'
\* and every other line's percentage taken against the maximum TPS of the
\* master group at that x value.
C22_BaselineGatesVersionLines ==
    Called("write_test_results") =>
        LET tbl == args[2]
            lines == ret.value
            rowsAt(x) == {k \in 1..Len(tbl) : tbl[k].x = x}
            groupsAt(x) == {<<tbl[k].version, tbl[k].cell>> : k \in rowsAt(x)}
            linesAt(x, kind) ==
                {n \in 1..Len(lines) : lines[n][1] = kind /\ lines[n][2] = x}
            lineOf(x, g) ==
                {n \in linesAt(x, "version") :
                    lines[n][3] = g[1] /\ (isna(lines[n][4]) <=> g[2] = <<>>)}
            masters(x) == {k \in rowsAt(x) : tbl[k].version = Master}
            firstMaster(x) ==
                <<Master, tbl[CHOOSE k \in masters(x) : \A m \in masters(x) : k <= m].cell>>
        IN  \A x \in {tbl[k].x : k \in 1..Len(tbl)} :
                IF masters(x) = {}
                THEN /\ Cardinality(linesAt(x, "no master")) = 1
                     /\ linesAt(x, "version") = {}
                ELSE /\ linesAt(x, "no master") = {}
                     /\ Cardinality(linesAt(x, "version")) = Cardinality(groupsAt(x))
                     /\ \A g \in groupsAt(x) :
                            /\ Cardinality(lineOf(x, g)) = 1
                            /\ LET text == lines[CHOOSE n \in lineOf(x, g) : TRUE][7]
                                   number == SubSeq(text, 2, Len(text) - 2)
                               IN  IF g[1] = Master THEN text = Baseline
                                   ELSE /\ IsOneDecimal(number)
                                        /\ ReportsChange(SignedTenths(number),
                                                         GroupMax(tbl, x, firstMaster(x)),
                                                         GroupMax(tbl, x, g))

C22_Witness ==
    /\ Called("write_test_results")
    /\ \E n \in 1..Len(ret.value) : ret.value[n][1] = "no master"
    /\ \E n \in 1..Len(ret.value) :
           /\ ret.value[n][1] = "version"
           /\ ret.value[n][7] = <<"(", "+", "2", "0", ".", "0", "%", ")">>
    /\ \E n \in 1..Len(ret.value) :
           ret.value[n][1] = "version" /\ ret.value[n][7] = Baseline

---------------------------------------------------------------------------
(* Claims about analyze_scaling's results list *)

\* the versions of tbl, in order of first appearance, that have at least 3
\* rows with connections >= 100
Qualifying(tbl) ==
    SelectSeq(UniqueVersions(tbl),
              LAMBDA v : Cardinality({k \in 1..Len(tbl) :
                             /\ tbl[k].version = v
                             /\ tbl[k].connections # NaN
                             /\ tbl[k].connections >= 100}) >= 3)

\* the results hold exactly the qualifying versions, in order, each
\* classified as O(1) or O(N)
ResultsComplete ==
    /\ [k \in 1..Len(results) |-> results[k].version] = Qualifying(df)
    /\ \A k \in 1..Len(results) : results[k].complexity \in {"O(1)", "O(N)"}
    /\ Cardinality({k \in 1..Len(results) : results[k].complexity = "O(1)"})
       + Cardinality({k \in 1..Len(results) : results[k].complexity = "O(N)"})
       = Len(results)

\* C23: when analyze_scaling has ended on an existing CSV, its results list
\* holds, in order of first appearance and once each, exactly the versions
\* with at least 3 rows at connections >= 100, each classified as one of
\* O(1) and O(N).
C23_ResultsAreTheQualifyingVersions ==
    script = "analyze_scaling" /\ csvExists /\ pc \in {"done", "crashed"} => ResultsComplete

\* the same for the runs that reach the summary
C23_WhenSummaryIsReached ==
    script = "analyze_scaling" /\ pc = "done" => ResultsComplete

\* the per-file CSVs on disk after the writes so far: of the writes to one
\* name the last one stays
CsvOnDisk ==
    {csv_files[k] : k \in {j \in 1..Len(csv_files) :
                               \A l \in (j + 1)..Len(csv_files) :
                                   csv_files[l].name # csv_files[j].name}}

\* nothing was written
NoFileWritten == csv_files = <<>> /\ ~combined.written

\* one CSV on disk for each file of fs, holding that file's record, and no
\* other; the combined CSV holds the records of fs
WrittenExactlyFor(fs) ==
    /\ Cardinality(CsvOnDisk) = Len(fs)
    /\ \A k \in 1..Len(fs) :
           \E c \in CsvOnDisk :
               /\ c.stem = fs[k].stem
               /\ c.row = CsvRow(c.fieldnames, parse_pgbench_file(fs[k]).data)
    /\ combined.written
    /\ combined.rows = [k \in 1..Len(fs) |->
                           CsvRow(combined.fieldnames, parse_pgbench_file(fs[k]).data)]

\* C24: when main of parse_pgbench_csv has ended, no file was written if the
\* results directory is missing, holds no .txt file, or none of its files
\* parses; otherwise there is a per-file CSV for exactly the files that
\* parsed, each holding its file's record, and the combined CSV holds
\* exactly their records.
C24_CsvForExactlyTheParsedFiles ==
    MainDone =>
        IF ~dirExists \/ SelectSeq(txt_files, Parses) = <<>>
        THEN NoFileWritten
        ELSE WrittenExactlyFor(SelectSeq(txt_files, Parses))

\* the same for the directories in which no two parsed files are given the
\* same CSV name
C24_WhenCsvNamesDiffer ==
    (MainDone /\ \A a, b \in 1..Len(txt_files) :
                    (a # b /\ Parses(txt_files[a]) /\ Parses(txt_files[b]))
                        => csv_filename(txt_files[a].stem) # csv_filename(txt_files[b].stem)) =>
        IF ~dirExists \/ SelectSeq(txt_files, Parses) = <<>>
        THEN NoFileWritten
        ELSE WrittenExactlyFor(SelectSeq(txt_files, Parses))

\* the record of the file is there, and its fields taken from the name are
\* those of the same name with an empty content
RecordWhateverContent ==
    /\ parsed.ok
    /\ LET bare == parse_pgbench_file(File(file.stem, <<>>, TRUE)) IN
       /\ bare.ok
       /\ \A k \in DOMAIN FallbackFields(file.stem) : parsed.data[k] = bare.data[k]
       /\ DOMAIN parsed.data \ {"transaction_type"} = DOMAIN bare.data

\* C25: parse_pgbench_file returns a record for a readable file whose name
\* is of the grammar, whatever its content; the content decides only the
\* nine metrics and transaction_type, and a metric label followed by a
\* malformed number does not cause the record to be dropped.
C25_ContentNeverDropsTheRecord ==
    (Returned /\ file.readable /\ MatchesGrammar(split(file.stem, "-")))
        => RecordWhateverContent

\* the same for the contents in which every number a metric pattern captures
\* is a float literal
C25_WhenNumbersAreWellFormed ==
    (Returned /\ file.readable /\ MatchesGrammar(split(file.stem, "-"))
        /\ ContentParses(file.content))
        => RecordWhateverContent

===========================================================================
